---- MODULE Spec2Model ----
(***************************************************************************)
(* AutoSQL front end: the conversation/tab orchestrator (SqlIdeLayout)     *)
(* together with the prompt component that drives it (AiPromptInterface),  *)
(* the result views it mounts (QueryExecutionResults, TableDisplay), the    *)
(* Mermaid rendering of its ER Diagram tab, and the standalone ER diagram  *)
(* page (ERDiagramPage).                                                   *)
(*                                                                         *)
(* React state is modelled one variable per useState cell.  Every async    *)
(* handler is split at its awaits: one action for the part that runs when  *)
(* the event fires and one action per continuation, so that other events   *)
(* interleave exactly where the JavaScript event loop lets them.           *)
(* The backend is the environment: each continuation draws the outcome of  *)
(* its request (a response or a thrown error) from a small set.            *)
(***************************************************************************)
EXTENDS Integers, Sequences, FiniteSets, TLC

(* ------------------------------ bounds -------------------------------- *)
MaxRuns == 2
\* executions of handleDirectExecution in flight at once
MaxMessages == 4
\* entries the conversation log may hold
MaxTabs == 2
\* pinned tabs open at once
MaxClock == 1
\* largest reading of Date.now()
MaxRand == 2
\* distinct random suffixes Math.random() may produce
MaxClearInFlight == 1
\* handleClearConversation calls in flight at once
MaxRows == 30
\* rows of the largest result the backend returns
MaxUrls == 3
\* object URLs URL.createObjectURL hands out
MaxBatch == 2
\* files of one selection in a file dialog

(* ------------------------------- data --------------------------------- *)
Null == [isNull |-> TRUE]

SqlTexts == {"", " ", "SELECT 1"}
Prompts == {"show employees"}

\* Error.message of an error thrown by the API client (lib/api)
ThrownMessages == {"HTTP 500"}
\* how a request to the backend may end for its caller
ApiOutcomes == {"ok", "throw"}

\* cell values: a number, a text (the sequence of its characters; a run of
\* characters that are neither a comma nor a newline is written as one
\* element), null, or undefined (the row has no such key)
Num(n) == [isNull |-> FALSE, num |-> n]
Txt(chars) == [isNull |-> FALSE, txt |-> chars]
Undefined == [isUndefined |-> TRUE]
\* the texts of the data in the order JavaScript's < puts them
TextOrder == << <<"a", ",", "b">>, <<"x">>, <<"y">> >>
\* row[column]
Get(row, column) == IF column \in DOMAIN row THEN row[column] ELSE Undefined

\* TableResult values; a row is an object keyed by column name
TEmployees ==
  [table_name |-> "employees", row_count |-> 2, columns |-> <<"id">>,
   rows |-> <<[id |-> Num(1)], [id |-> Num(2)]>>]
TAnon ==
  [table_name |-> "", row_count |-> 1, columns |-> <<"n">>,
   rows |-> <<[n |-> Num(7)]>>]
TStaff ==
  [table_name |-> "staff", row_count |-> 5, columns |-> <<"id", "boss">>,
   rows |-> <<[id |-> Num(3), boss |-> Null],
              [id |-> Num(1), boss |-> Num(2)],
              [id |-> Num(2), boss |-> Null],
              [id |-> Num(1)],
              [id |-> Num(4), boss |-> Num(1)]>>]
BigRows == [i \in 1..MaxRows |-> [n |-> Num((i * 7) % 10)]]

RespTwoTables ==
  [success |-> TRUE, error_message |-> "", columns |-> <<>>, row_count |-> 0,
   table_results |-> <<TEmployees, TAnon>>]
RespFlat ==
  [success |-> TRUE, error_message |-> "", columns |-> <<"id">>, row_count |-> 3,
   rows |-> <<[id |-> Num(1)], [id |-> Num(2)], [id |-> Num(3)]>>,
   table_results |-> <<>>]
\* one SELECT answered in the table_results shape, flattened fields filled too
RespOneTable ==
  [success |-> TRUE, error_message |-> "", columns |-> TStaff.columns,
   row_count |-> 5, rows |-> TStaff.rows, table_results |-> <<TStaff>>]
\* a long result in the flattened shape
RespBig ==
  [success |-> TRUE, error_message |-> "", columns |-> <<"n">>,
   row_count |-> MaxRows, rows |-> BigRows, table_results |-> <<>>]
\* text cells, one of them holding a comma
RespNames ==
  [success |-> TRUE, error_message |-> "", columns |-> <<"name", "city">>,
   row_count |-> 2,
   rows |-> <<[name |-> Txt(<<"a", ",", "b">>), city |-> Txt(<<"x">>)],
              [name |-> Null, city |-> Txt(<<"y">>)]>>,
   table_results |-> <<>>]
\* a statement that returns no rows (INSERT, CREATE ...)
RespDdl ==
  [success |-> TRUE, error_message |-> "", columns |-> <<>>, row_count |-> 0,
   table_results |-> <<>>]
RespFailMsg ==
  [success |-> FALSE, error_message |-> "syntax error", columns |-> <<>>,
   row_count |-> 0, table_results |-> <<>>]
RespFailNoMsg ==
  [success |-> FALSE, error_message |-> "", columns |-> <<>>, row_count |-> 0,
   table_results |-> <<>>]
\* ExecuteQueryResponse values the backend may answer an execute call with;
\* error_message "" stands for an absent or empty message (both falsy)
ExecResponses == {RespTwoTables, RespFlat, RespFailMsg, RespFailNoMsg}
\* the successful answers, one per shape of result and kind of content
TableResponses == {RespTwoTables, RespOneTable, RespFlat, RespBig, RespNames, RespDdl}
\* x || [] on a field that may be absent
RowsOf(r) == IF "rows" \in DOMAIN r THEN r.rows ELSE <<>>

\* AIQueryResponse values the backend may answer a generate call with
GenOk == [success |-> TRUE, sql |-> "SELECT 1", error |-> "", explanation |-> ""]
GenNoSql == [success |-> TRUE, sql |-> "", error |-> "", explanation |-> ""]
GenFail == [success |-> FALSE, sql |-> "", error |-> "bad prompt", explanation |-> ""]
GenResponses == {GenOk, GenNoSql, GenFail}

\* x || y of JavaScript on strings: the empty string is falsy
OrElse(x, y) == IF x # "" THEN x ELSE y

\* File values a file dialog may return: type is the MIME type the browser
\* reports ("" when it knows none), name is the base name followed by the
\* extension.  The accept attribute of an input does not restrict the files.
Png == [name |-> <<"a", ".png">>, type |-> "image/png"]
Jpeg == [name |-> <<"b", ".jpg">>, type |-> "image/jpeg"]
Gif == [name |-> <<"c", ".gif">>, type |-> "image/gif"]
CsvFile == [name |-> <<"d", ".csv">>, type |-> "text/csv"]
SqlFile == [name |-> <<"q", ".sql">>, type |-> ""]
\* e.target.files of one change event: nothing, files of one kind, and files
\* of two kinds in both orders
Batches ==
  {b \in {<<>>, <<Png>>, <<Png, Jpeg>>, <<Png, Gif>>, <<Gif, Jpeg>>, <<CsvFile>>,
          <<SqlFile, CsvFile>>, <<CsvFile, Gif>>, <<Jpeg, Png, Jpeg>>,
          <<SqlFile, CsvFile, Png>>} : Len(b) <= MaxBatch}

(* ------------------------------ state --------------------------------- *)
VARIABLES
  hasQuery, generatedQuery, queryResults, messages, activeTab,
  isExecuting, isGenerating, tableTabs,
  erDiagramData, isLoadingErDiagram, showErDiagram,
  promptGenerating, promptError,
  runs, genCall, clearInFlight,
  views, resultTab, display, download,
  selectedImages, imagePreviews, selectedFiles, followError, created, revoked,
  genHeld, followCall,
  erDiagramView, container, renders,
  loading, schemaData, pageError, diagram,
  now, issued, lastOp

orchVars == <<hasQuery, generatedQuery, queryResults, messages, activeTab,
              isExecuting, isGenerating, tableTabs>>
erVars == <<erDiagramData, isLoadingErDiagram, showErDiagram>>
promptVars == <<promptGenerating, promptError>>
asyncVars == <<runs, genCall, clearInFlight>>
\* views: the mounted QueryExecutionResults instances, in document order;
\* resultTab, display: the inner tab strip and the TableDisplay of the first
\* of them; download: the file the last export saved
viewVars == <<views, resultTab, display, download>>
\* selectedImages, imagePreviews, selectedFiles: the selection of the mounted
\* AiPromptInterface (the initial-state one or the follow-up one);
\* followError: the error cell of the follow-up one (promptError is that of
\* the initial-state one); created, revoked: the object URLs handed out by
\* URL.createObjectURL and those given back to URL.revokeObjectURL
uploadVars == <<selectedImages, imagePreviews, selectedFiles, followError,
                created, revoked>>
\* what the pending handleGenerate call of the initial-state prompt (genHeld)
\* and of the follow-up prompt (followCall) closed over, and whether the
\* instance that made the call is still mounted
callVars == <<genHeld, followCall>>
\* container: the content of #mermaid-diagram-container (Null: not in the
\* document); renders: the renderMermaidDiagram calls that have not finished
diagramVars == <<erDiagramView, container, renders>>
\* ERDiagramPage: its three state cells (pageError is its error cell) and the
\* content of #mermaid-diagram (Null: not in the document)
pageVars == <<loading, schemaData, pageError, diagram>>
vars == <<orchVars, erVars, promptVars, asyncVars, viewVars, uploadVars, callVars,
          diagramVars, pageVars, now, issued, lastOp>>

RunIds == 1..MaxRuns
IdleRun == [sql |-> "", clear |-> "unsent", exec |-> "unsent"]
Running(r) == runs[r].clear = "pending" \/ runs[r].exec = "pending"

Op(name, arg) == [op |-> name, arg |-> arg]

\* no handleGenerate call of the initial-state prompt is pending
NoCall == [previews |-> <<>>, live |-> FALSE]
\* the children React renders into the two diagram containers
Spinner == [kind |-> "spinner"]

\* The state once both routes have mounted: the layout at "/" with its
\* useState initial values, and the page at "/er-diagram" whose mount effect
\* has called fetchSchema (loading is true, the request is in flight).
Init ==
  /\ hasQuery = FALSE
  /\ generatedQuery = ""
  /\ queryResults = Null
  /\ messages = <<>>
  /\ activeTab = "code"
  /\ isExecuting = FALSE
  /\ isGenerating = FALSE
  /\ tableTabs = <<>>
  /\ erDiagramData = Null
  /\ isLoadingErDiagram = FALSE
  /\ showErDiagram = FALSE
  /\ promptGenerating = FALSE
  /\ promptError = ""
  /\ runs = [r \in RunIds |-> IdleRun]
  /\ genCall = "idle"
  /\ clearInFlight = 0
  /\ views = <<>>
  /\ resultTab = 0
  /\ display = Null
  /\ download = Null
  /\ selectedImages = <<>>
  /\ imagePreviews = <<>>
  /\ selectedFiles = <<>>
  /\ followError = ""
  /\ created = {}
  /\ revoked = {}
  /\ genHeld = NoCall
  /\ followCall = Null
  /\ erDiagramView = "diagram"
  /\ container = Null
  /\ renders = {}
  /\ loading = TRUE
  /\ schemaData = Null
  /\ pageError = ""
  /\ diagram = Null
  /\ now = 0
  /\ issued = {}
  /\ lastOp = Op("init", "")

(* ----------------- result views (QueryExecutionResults) --------------- *)
Range(seq) == {seq[i] : i \in 1..Len(seq)}
\* seq.filter((_, j) => j !== i)
RemoveAt(seq, i) == SubSeq(seq, 1, i - 1) \o SubSeq(seq, i + 1, Len(seq))
Min(a, b) == IF a < b THEN a ELSE b
Max(a, b) == IF a > b THEN a ELSE b

\* the results prop the Results tab builds from queryResults
AiResultsOfOutcome(qr) ==
  [success |-> qr.success, columns |-> qr.columns, rows |-> RowsOf(qr),
   row_count |-> qr.row_count, error |-> qr.error_message,
   table_results |-> qr.table_results]

\* the results prop a pinned tab builds from its tableResult
AiResultsOfTab(tab) ==
  [success |-> TRUE, columns |-> tab.tableResult.columns,
   rows |-> tab.tableResult.rows, row_count |-> tab.tableResult.row_count,
   error |-> "", table_results |-> <<tab.tableResult>>]

\* formattedResults of the results effect: rows become arrays in column order
FormattedResults(ai) ==
  [columns |-> ai.columns,
   rows |-> [i \in 1..Len(ai.rows) |->
              [j \in 1..Len(ai.columns) |-> Get(ai.rows[i], ai.columns[j])]],
   totalRows |-> ai.row_count,
   table_results |-> ai.table_results]

\* the local state of an instance once its effect has run for the prop ai
\* (the prop is a new object on every render of the layout)
ViewFor(ai, maximized) ==
  [results |-> IF ai.success THEN FormattedResults(ai) ELSE Null,
   error |-> IF ai.success THEN Null
             ELSE [message |-> OrElse(ai.error, "Query execution failed")],
   maximizedTable |-> maximized]

\* results.columns.forEach((col, colIndex) => rowObj[col] = row[colIndex])
ColIndex(columns, c) ==
  CHOOSE j \in 1..Len(columns) :
    columns[j] = c /\ \A k \in 1..Len(columns) : columns[k] = c => k <= j

\* the table synthesized from the flattened columns/rows/counters
FlatTableOf(results) ==
  [table_name |-> "", row_count |-> results.totalRows,
   columns |-> results.columns,
   rows |-> [i \in 1..Len(results.rows) |->
              [c \in Range(results.columns) |->
                 results.rows[i][ColIndex(results.columns, c)]]]]

\* the same table, from the outcome the Results tab was given
FlatTable(results) == FlatTableOf(FormattedResults(AiResultsOfOutcome(results)))

\* (variant: any table_results is rendered as one inline table)
Shape_neverTabs(results) ==
  IF results = Null THEN "none"
  ELSE IF Len(results.table_results) >= 1 THEN "single"
  ELSE IF Len(results.columns) > 0 THEN "flat"
  ELSE "empty"

\* the branch of the render a results state takes
Shape(results) ==
  IF results = Null THEN "none"
  ELSE IF Len(results.table_results) = 1 THEN "single"
  ELSE IF Len(results.table_results) > 1 THEN "tabs"
  ELSE IF Len(results.columns) > 0 THEN "flat"
  ELSE "empty"

\* the tableResult props of the TableDisplay elements of that branch
Cards(results) ==
  CASE Shape(results) \in {"single", "tabs"} -> results.table_results
    [] Shape(results) = "flat" -> <<FlatTableOf(results)>>
    [] OTHER -> <<>>

\* the triggers of the inner tab strip: label and row-count badge
\* (row_count?.toLocaleString() || rows.length.toLocaleString())
InnerTriggers(results) ==
  IF Shape(results) # "tabs" THEN <<>>
  ELSE [i \in 1..Len(results.table_results) |->
          [value |-> i - 1,
           label |-> "Table " \o ToString(i),
           badge |-> IF "row_count" \in DOMAIN results.table_results[i]
                       THEN results.table_results[i].row_count
                       ELSE Len(results.table_results[i].rows)]]

\* the TableDisplay cards QueryExecutionResults renders for a result
DisplayedTables(results) ==
  IF results = Null \/ ~results.success THEN {}
  ELSE IF Len(results.table_results) > 0
    THEN {results.table_results[i] : i \in 1..Len(results.table_results)}
    ELSE IF Len(results.columns) > 0 THEN {FlatTable(results)} ELSE {}

\* the results props of the QueryExecutionResults elements that are mounted:
\* the content of the selected tab only, and nothing before the first query
MountedProps(has, active, qr, tabs) ==
  IF ~has THEN <<>>
  ELSE IF active = "table"
    THEN IF qr # Null THEN <<AiResultsOfOutcome(qr)>> ELSE <<>>
    ELSE LET shown == SelectSeq(tabs, LAMBDA t : t.id = active)
         IN [i \in 1..Len(shown) |-> AiResultsOfTab(shown[i])]

\* useState initial values of TableDisplay
\* (sortColumn and sortDirection hold NoSort for null)
NoSort == "(null)"
FreshDisplay == [currentPage |-> 1, pageSize |-> 25, sortColumn |-> NoSort,
                 sortDirection |-> NoSort]

\* the card the first view shows: its only card, or the one of the inner tab
ShownCard(results, tab) ==
  LET cards == Cards(results)
  IN IF Shape(results) = "tabs"
       THEN IF tab + 1 <= Len(cards) THEN cards[tab + 1] ELSE Null
       ELSE IF Len(cards) > 0 THEN cards[1] ELSE Null

\* What React keeps and what it mounts anew when the layout renders with the
\* primed state: an instance survives while its tab stays selected, and a
\* TableDisplay survives while its instance does and the render takes the
\* same branch.
RenderViews ==
  \E props \in {MountedProps(hasQuery', activeTab', queryResults', tableTabs')} :
  \E kept \in {IF hasQuery /\ activeTab' = activeTab THEN Len(views) ELSE 0} :
  \E next \in {[i \in 1..Len(props) |->
                 ViewFor(props[i], IF i <= kept THEN views[i].maximizedTable ELSE Null)]} :
  \E shape \in {IF Len(next) >= 1 THEN Shape(next[1].results) ELSE "none"} :
  \E sameBranch \in {kept >= 1 /\ shape = Shape(views[1].results)} :
  \E tab \in {IF sameBranch /\ shape = "tabs" THEN resultTab ELSE 0} :
    /\ views' = next
    /\ resultTab' = tab
    /\ display' = IF Len(next) = 0 \/ ShownCard(next[1].results, tab) = Null
                    THEN Null
                    ELSE IF sameBranch /\ display # Null THEN display
                    ELSE FreshDisplay
    /\ UNCHANGED download

\* #mermaid-diagram-container is in the document while the split layout shows
\* the ER Diagram tab with a schema that has tables, in the diagram sub-view
ContainerShown(has, active, show, data, view) ==
  has /\ active = "er-diagram" /\ show /\ data # Null /\ data.has_tables
    /\ view = "diagram"

\* a renderMermaidDiagram call: waiting for its timer and the import
\* ("timer"), or for mermaid.render after it looked the element up and
\* cleared it ("rendering"; attached: that element is still in the document)
RenderTask(src, stage, attached) == [src |-> src, stage |-> stage, attached |-> attached]

\* the render effect: its dependencies are erDiagramData (a new object after
\* every fetch), showErDiagram and erDiagramView
EffectRuns ==
  /\ \/ lastOp'.op = "erDone" /\ lastOp'.arg = "ok"
     \/ showErDiagram' # showErDiagram
     \/ erDiagramView' # erDiagramView
  /\ erDiagramData' # Null /\ erDiagramData'.has_tables /\ erDiagramData'.mermaid # ""
  /\ showErDiagram' /\ erDiagramView' = "diagram"

\* The container and the pending renders after the layout rendered: a
\* container that stays in the document keeps its content, one that enters it
\* starts with the spinner React renders, and the element a render holds is
\* detached when the container leaves.  Pending renders are kept as a set:
\* two calls for one source at one stage are not told apart.
RenderDiagram ==
  \E shown \in {ContainerShown(hasQuery', activeTab', showErDiagram', erDiagramData',
                               erDiagramView')} :
    /\ container' = IF ~shown THEN Null
                    ELSE IF container # Null THEN container ELSE Spinner
    /\ renders' = {IF shown THEN t ELSE [t EXCEPT !.attached = FALSE] : t \in renders}
                    \cup (IF EffectRuns
                            THEN {RenderTask(erDiagramData'.mermaid, "timer", FALSE)}
                            ELSE {})

\* the render of the layout without the prompt instances
RenderLayout == UNCHANGED <<erDiagramView, pageVars>> /\ RenderViews /\ RenderDiagram

\* The layout mounts one AiPromptInterface: the initial-state one while
\* hasQuery is false, the follow-up one while it is true.  When hasQuery
\* changes the mounted instance is unmounted and its state is lost; the
\* cleanup of its unmount effect runs over the imagePreviews of its first
\* render (the effect has no dependencies), which is the empty array.
Remounts == hasQuery' # hasQuery

\* the selection and the error of the mounted instance after the render
InstanceAfter(images, previews, files, err) ==
  /\ selectedImages' = IF Remounts THEN <<>> ELSE images
  /\ imagePreviews' = IF Remounts THEN <<>> ELSE previews
  /\ selectedFiles' = IF Remounts THEN <<>> ELSE files
  /\ followError' = IF Remounts THEN "" ELSE err

\* The pending calls after the render.  A call outlives its instance; what
\* it then sets on the unmounted instance is discarded by React, so a
\* follow-up call is tracked further only for the previews it will revoke.
CallsAfter(gen, follow) ==
  /\ genHeld' = IF Remounts THEN [gen EXCEPT !.live = FALSE] ELSE gen
  /\ followCall' = IF ~Remounts \/ follow = Null THEN follow
                   ELSE IF follow.previews # <<>> THEN [follow EXCEPT !.live = FALSE]
                   ELSE Null

\* the prompts after a handler that is not one of theirs
RenderPrompt ==
  /\ InstanceAfter(selectedImages, imagePreviews, selectedFiles, followError)
  /\ CallsAfter(genHeld, followCall)
  /\ UNCHANGED <<created, revoked>>

\* the render of the layout after a handler that is not one of the prompt's
Render == RenderLayout /\ RenderPrompt

(* ---------------------- table display (TableDisplay) ------------------- *)
PageSizes == {10, 25, 50, 100}

\* Math.ceil(tableResult.rows.length / pageSize)
totalPages(tableResult, pageSize) == (Len(tableResult.rows) + pageSize - 1) \div pageSize
\* (currentPage - 1) * pageSize + 1
startRow(currentPage, pageSize) == (currentPage - 1) * pageSize + 1
\* Math.min(currentPage * pageSize, tableResult.rows.length)
endRow(tableResult, currentPage, pageSize) ==
  Min(currentPage * pageSize, Len(tableResult.rows))

Nullish(v) == v = Null \/ v = Undefined

\* aVal < bVal on two numbers or on two texts
Less(x, y) ==
  IF "num" \in DOMAIN x /\ "num" \in DOMAIN y THEN x.num < y.num
  ELSE IF "txt" \in DOMAIN x /\ "txt" \in DOMAIN y
    THEN \E i, j \in 1..Len(TextOrder) :
           i < j /\ TextOrder[i] = x.txt /\ TextOrder[j] = y.txt
    ELSE FALSE

\* (variant: null and undefined values sort first)
compareRows_nullsFirst(a, b, sortColumn, sortDirection) ==
  LET aVal == Get(a, sortColumn)
      bVal == Get(b, sortColumn)
  IN IF Nullish(aVal) THEN -1
     ELSE IF Nullish(bVal) THEN 1
     ELSE IF Less(aVal, bVal) THEN (IF sortDirection = "asc" THEN -1 ELSE 1)
     ELSE IF Less(bVal, aVal) THEN (IF sortDirection = "asc" THEN 1 ELSE -1)
     ELSE 0

\* the comparator handed to Array.prototype.sort
compareRows(a, b, sortColumn, sortDirection) ==
  LET aVal == Get(a, sortColumn)
      bVal == Get(b, sortColumn)
  IN IF Nullish(aVal) THEN 1
     ELSE IF Nullish(bVal) THEN -1
     ELSE IF Less(aVal, bVal) THEN (IF sortDirection = "asc" THEN -1 ELSE 1)
     ELSE IF Less(bVal, aVal) THEN (IF sortDirection = "asc" THEN 1 ELSE -1)
     ELSE 0

\* Array.prototype.sort is stable: a row goes before the first row already
\* placed that the comparator puts after it
InsertPos(sorted, x, sortColumn, sortDirection) ==
  CHOOSE k \in 1..(Len(sorted) + 1) :
    /\ k = Len(sorted) + 1 \/ compareRows(x, sorted[k], sortColumn, sortDirection) < 0
    /\ \A m \in 1..(k - 1) : compareRows(x, sorted[m], sortColumn, sortDirection) >= 0

RECURSIVE SortFrom(_, _, _, _, _)
SortFrom(rows, i, acc, sortColumn, sortDirection) ==
  IF i > Len(rows) \/ Len(acc) < i - 1 THEN acc
  ELSE LET p == InsertPos(acc, rows[i], sortColumn, sortDirection)
       IN SortFrom(rows, i + 1,
                   SubSeq(acc, 1, p - 1) \o <<rows[i]>> \o SubSeq(acc, p, Len(acc)),
                   sortColumn, sortDirection)

\* if (!sortColumn || !sortDirection) return tableResult.rows
sortedRows(tableResult, sortColumn, sortDirection) ==
  IF sortColumn \in {NoSort, ""} \/ sortDirection = NoSort THEN tableResult.rows
  ELSE SortFrom(tableResult.rows, 1, <<>>, sortColumn, sortDirection)

\* (variant: the slice starts one row late)
slicePage_offByOne(rows, currentPage, pageSize) ==
  SubSeq(rows, (currentPage - 1) * pageSize + 2, Min(currentPage * pageSize, Len(rows)))

\* rows.slice((currentPage - 1) * pageSize, currentPage * pageSize)
slicePage(rows, currentPage, pageSize) ==
  SubSeq(rows, (currentPage - 1) * pageSize + 1, Min(currentPage * pageSize, Len(rows)))

paginatedRows(tableResult, d) ==
  slicePage(sortedRows(tableResult, d.sortColumn, d.sortDirection),
            d.currentPage, d.pageSize)

\* (variant: a third click on the column keeps it the sort column)
sortAfterClick_keepsColumn(d, column) ==
  IF d.sortColumn = column
    THEN [d EXCEPT !.sortDirection = IF @ = "asc" THEN "desc"
                                     ELSE IF @ = "desc" THEN NoSort ELSE "asc"]
    ELSE [d EXCEPT !.sortColumn = column, !.sortDirection = "asc"]

\* (variant: a click on another column keeps the direction of the old sort)
sortAfterClick_keepsDirection(d, column) ==
  IF d.sortColumn = column
    THEN [d EXCEPT !.sortDirection = IF @ = "asc" THEN "desc"
                                     ELSE IF @ = "desc" THEN NoSort ELSE "asc",
                   !.sortColumn = IF d.sortDirection = "desc" THEN NoSort ELSE @]
    ELSE [d EXCEPT !.sortColumn = column,
                   !.sortDirection = IF @ = NoSort THEN "asc" ELSE @]

\* handleSort: the state of the TableDisplay after a click on a header
sortAfterClick(d, column) ==
  IF d.sortColumn = column
    THEN [d EXCEPT !.sortDirection = IF @ = "asc" THEN "desc"
                                     ELSE IF @ = "desc" THEN NoSort ELSE "asc",
                   !.sortColumn = IF d.sortDirection = "desc" THEN NoSort ELSE @]
    ELSE [d EXCEPT !.sortColumn = column, !.sortDirection = "asc"]

\* the table of the TableDisplay the model follows
ShownTable == ShownCard(views[1].results, resultTab)

orchState == <<orchVars, erVars, promptVars, asyncVars, uploadVars, callVars,
              diagramVars, pageVars, now, issued>>

handleSort(column) ==
  /\ display # Null
  /\ column \in Range(ShownTable.columns)
  /\ display' = sortAfterClick(display, column)
  /\ lastOp' = [op |-> "sort", arg |-> column,
                was |-> <<display.sortColumn, display.sortDirection>>]
  /\ UNCHANGED <<orchState, views, resultTab, download>>

\* (variant: the page shown is kept when the page size changes)
pageSizeChanged_keepsPage(d, value) == [d EXCEPT !.pageSize = value]

\* onValueChange of the page-size Select
pageSizeChanged(d, value) == [d EXCEPT !.pageSize = value, !.currentPage = 1]

\* the Select reports a change only for an item other than the selected one
selectPageSize(value) ==
  /\ display # Null
  /\ value # display.pageSize
  /\ display' = pageSizeChanged(display, value)
  /\ lastOp' = [op |-> "pageSize", arg |-> "", was |-> display.currentPage]
  /\ UNCHANGED <<orchState, views, resultTab, download>>

\* the previous-page button: rendered when totalPages > 1, disabled on page 1
previousPage ==
  /\ display # Null
  /\ totalPages(ShownTable, display.pageSize) > 1
  /\ display.currentPage > 1
  /\ display' = [display EXCEPT !.currentPage = Max(1, @ - 1)]
  /\ lastOp' = Op("page", "previous")
  /\ UNCHANGED <<orchState, views, resultTab, download>>

\* the next-page button: disabled on the last page and beyond
nextPage ==
  /\ display # Null
  /\ totalPages(ShownTable, display.pageSize) > 1
  /\ display.currentPage < totalPages(ShownTable, display.pageSize)
  /\ display' = [display EXCEPT
                   !.currentPage = Min(totalPages(ShownTable, display.pageSize), @ + 1)]
  /\ lastOp' = Op("page", "next")
  /\ UNCHANGED <<orchState, views, resultTab, download>>

(* ------------------- maximize, inner tabs and export ------------------ *)
\* the card a mounted view shows (the inner strip of a view other than the
\* first is on its default tab)
CardOfView(v) == ShownCard(views[v].results, IF v = 1 THEN resultTab ELSE 0)

\* (variant: the card clicked becomes the maximized one whatever was before)
maximizedAfterClick_replaces(maximizedTable, tableResult) == tableResult

\* setMaximizedTable(maximizedTable ? null : tableResult)
maximizedAfterClick(maximizedTable, tableResult) ==
  IF maximizedTable # Null THEN Null ELSE tableResult

\* the Maximize button of the card view v shows
handleMaximize(v) ==
  /\ v \in 1..Len(views)
  /\ views[v].results # Null
  /\ CardOfView(v) # Null
  /\ views' = [views EXCEPT ![v].maximizedTable = maximizedAfterClick(@, CardOfView(v))]
  /\ lastOp' = Op("maximize", ToString(v))
  /\ UNCHANGED <<orchState, resultTab, display, download>>

\* the isMaximized prop of the card view v shows
IsMaximized(v) ==
  /\ CardOfView(v) # Null
  /\ IF Shape(views[v].results) = "flat"
       THEN views[v].maximizedTable # Null
       ELSE views[v].maximizedTable = CardOfView(v)

\* a trigger of the inner tab strip: the content of the other tab is mounted
selectResultTab(i) ==
  /\ Len(views) >= 1
  /\ Shape(views[1].results) = "tabs"
  /\ i \in 0..(Len(views[1].results.table_results) - 1)
  /\ i # resultTab
  /\ resultTab' = i
  /\ display' = FreshDisplay
  /\ lastOp' = Op("resultTab", "")
  /\ UNCHANGED <<orchState, views, download>>

\* String(value) as Array.prototype.join takes it: "" for null and undefined
TextOf(v) ==
  IF Nullish(v) THEN <<>>
  ELSE IF "num" \in DOMAIN v THEN <<ToString(v.num)>>
  ELSE v.txt

\* fields.join(sep), on texts
RECURSIVE Join(_, _)
Join(fields, sep) ==
  IF Len(fields) = 0 THEN <<>>
  ELSE IF Len(fields) = 1 THEN fields[1]
  ELSE fields[1] \o <<sep>> \o Join(Tail(fields), sep)

\* (variant: the header line is left out)
Csv_noHeader(results) ==
  Join([i \in 1..Len(results.rows) |->
         Join([j \in 1..Len(results.rows[i]) |-> TextOf(results.rows[i][j])], ",")],
       "\n")

\* [results.columns.join(","), ...results.rows.map(row => row.join(","))].join("\n")
Csv(results) ==
  Join(<<Join([j \in 1..Len(results.columns) |-> <<results.columns[j]>>], ",")>>
         \o [i \in 1..Len(results.rows) |->
              Join([j \in 1..Len(results.rows[i]) |-> TextOf(results.rows[i][j])], ",")],
       "\n")

\* the Export CSV button, rendered while results is set
handleExport(v) ==
  /\ v \in 1..Len(views)
  /\ views[v].results # Null
  /\ download' = [name |-> "query_results.csv", text |-> Csv(views[v].results)]
  /\ lastOp' = Op("export", ToString(v))
  /\ UNCHANGED <<orchState, views, resultTab, display>>

(* --------------------------- conversation ----------------------------- *)
UserMessage(prompt) == [type |-> "user", content |-> <<prompt>>]
AssistantMessage(parts) == [type |-> "assistant", content |-> parts]
LogHasRoom == Len(messages) < MaxMessages

\* (variant: the new entry is put in front of the log)
AppendMessage_prepends(m) == messages' = <<m>> \o messages

\* setMessages(prev => [...prev, m])
AppendMessage(m) == messages' = Append(messages, m)

\* The initial-state AiPromptInterface is mounted only while hasQuery is
\* false; when the layout switches its local state is discarded, and the
\* next instance starts from its useState initial values.
PromptAfter(nextHasQuery, generating, error) ==
  IF nextHasQuery
    THEN promptGenerating' = FALSE /\ promptError' = ""
    ELSE promptGenerating' = generating /\ promptError' = error

(* ----------------------- generation (NoQuery) ------------------------- *)
\* String.prototype.trim on the texts the editor and the prompt may hold
Trim(s) == IF s \in {"", " "} THEN "" ELSE s

\* handleGenerate takes the solve endpoint when images or files are selected
ModeOfSelection ==
  IF Len(selectedImages) > 0 \/ Len(selectedFiles) > 0 THEN "solve" ELSE "generate"

\* handleNewQuery: the user's prompt is logged
handleNewQuery(prompt) == AppendMessage(UserMessage(prompt))

\* handleGenerate up to its await; mode is "solve" when images or files are
\* selected and "generate" otherwise.  The textarea and the button are
\* disabled while isGenerating.
handleGenerate_start(prompt, mode) ==
  /\ ~hasQuery
  /\ ~promptGenerating
  /\ genCall = "idle"
  /\ LogHasRoom
  /\ mode = ModeOfSelection
  /\ Trim(prompt) # "" \/ mode = "solve"
  /\ handleNewQuery(OrElse(Trim(prompt), "File-based query"))
  /\ promptGenerating' = TRUE
  /\ promptError' = ""
  /\ genCall' = mode
  /\ lastOp' = Op("generateStart", mode)
  /\ UNCHANGED <<hasQuery, generatedQuery, queryResults, activeTab, isExecuting,
                 isGenerating, tableTabs, erVars, runs, clearInFlight, now, issued>>
  /\ RenderLayout
  /\ InstanceAfter(selectedImages, imagePreviews, selectedFiles, followError)
  /\ genHeld' = [previews |-> imagePreviews, live |-> TRUE]
  /\ UNCHANGED <<followCall, created, revoked>>

\* handleQueryGenerated, called back with the generated SQL
handleQueryGenerated(query) ==
  /\ generatedQuery' = query
  /\ hasQuery' = TRUE
  /\ activeTab' = "code"
  /\ AppendMessage(AssistantMessage(<<"I've generated the SQL query for you.">>))

\* The render after a handleGenerate call of the initial-state prompt has
\* settled.  clearImages() and clearFiles() empty the selection of the
\* instance that made the call if it is still mounted (cleared), and
\* clearImages() revokes the previews that call closed over (released).
GenRender(cleared, released) ==
  /\ RenderLayout
  /\ InstanceAfter(IF cleared THEN <<>> ELSE selectedImages,
                   IF cleared THEN <<>> ELSE imagePreviews,
                   IF cleared THEN <<>> ELSE selectedFiles, followError)
  /\ CallsAfter(NoCall, followCall)
  /\ created' = created
  /\ revoked' = revoked \cup released

\* continuation of handleGenerate when the request ended without a query:
\* setError(msg), then finally setIsGenerating(false)
handleGenerate_failed(msg, how) ==
  /\ IF genHeld.live THEN PromptAfter(hasQuery, FALSE, msg) ELSE UNCHANGED promptVars
  /\ genCall' = "idle"
  /\ lastOp' = Op("generateDone", how)
  /\ UNCHANGED <<orchVars, erVars, runs, clearInFlight, now, issued>>

\* continuation of handleGenerate when a query came back
handleGenerate_succeeded(sql) ==
  /\ LogHasRoom
  /\ handleQueryGenerated(sql)
  /\ PromptAfter(TRUE, FALSE, "")
  /\ genCall' = "idle"
  /\ lastOp' = Op("generateDone", "ok")
  /\ UNCHANGED <<queryResults, isExecuting, isGenerating, tableTabs, erVars,
                 runs, clearInFlight, now, issued>>

\* text-only flow: await generateQuery(...)
handleGenerate_generateReturns(outcome, result) ==
  /\ genCall = "generate"
  /\ IF outcome = "throw"
       THEN \E m \in ThrownMessages : handleGenerate_failed(m, "throw")
       ELSE IF result.success /\ result.sql # ""
         THEN handleGenerate_succeeded(result.sql)
         ELSE handleGenerate_failed(OrElse(result.error, "Failed to generate query"), "fail")
  /\ GenRender(FALSE, {})

\* SolveResponse: response is modelled by the fenced sql blocks it embeds
SolveWithSql == [success |-> TRUE, hasResponse |-> TRUE, sqlBlocks |-> <<"SELECT 1">>, error |-> ""]
SolveNoSql == [success |-> TRUE, hasResponse |-> TRUE, sqlBlocks |-> <<>>, error |-> ""]
SolveFail == [success |-> FALSE, hasResponse |-> FALSE, sqlBlocks |-> <<>>, error |-> ""]
SolveResponses == {SolveWithSql, SolveNoSql, SolveFail}

\* images/files flow: await solveFromInput(...)
handleGenerate_solveReturns(outcome, result) ==
  /\ genCall = "solve"
  /\ IF outcome = "throw"
       THEN \E m \in ThrownMessages : handleGenerate_failed(m, "throw")
       ELSE IF result.success /\ result.hasResponse
         THEN IF Len(result.sqlBlocks) > 0
                THEN handleGenerate_succeeded(result.sqlBlocks[1])
                ELSE /\ IF genHeld.live THEN PromptAfter(hasQuery, FALSE, "")
                        ELSE UNCHANGED promptVars
                     /\ genCall' = "idle"
                     /\ lastOp' = Op("generateDone", "nosql")
                     /\ UNCHANGED <<orchVars, erVars, runs, clearInFlight, now, issued>>
         ELSE handleGenerate_failed(OrElse(result.error, "Failed to process images"), "fail")
  /\ \E ok \in {outcome = "ok" /\ result.success /\ result.hasResponse} :
       GenRender(ok /\ genHeld.live, IF ok THEN Range(genHeld.previews) ELSE {})

(* ----------------------- follow-up (HasQuery) ------------------------- *)
\* The follow-up AiPromptInterface is given an onNewQuery that itself calls
\* generateQuery with the current SQL as context.  Its handleGenerate calls
\* onNewQuery without awaiting it and goes on to its own request: generateQuery
\* with a session id of its own, or solveFromInput when files are selected.
OwnCall(mode, previews) == [mode |-> mode, previews |-> previews, live |-> TRUE]

\* onNewQuery of the follow-up AiPromptInterface, up to its await.  The
\* input is disabled while isGenerating (isLoading={isGenerating}).
followUp_start(prompt) ==
  /\ hasQuery
  /\ ~isGenerating
  /\ followCall = Null
  /\ LogHasRoom
  /\ Trim(prompt) # "" \/ ModeOfSelection = "solve"
  /\ AppendMessage(UserMessage(OrElse(Trim(prompt), "File-based query")))
  /\ isGenerating' = TRUE
  /\ lastOp' = Op("followUpStart", "")
  /\ UNCHANGED <<hasQuery, generatedQuery, queryResults, activeTab, isExecuting,
                 tableTabs, erVars, promptVars, asyncVars, now, issued>>
  /\ RenderLayout
  /\ followCall' = OwnCall(ModeOfSelection, imagePreviews)
  /\ followError' = ""
  /\ UNCHANGED <<selectedImages, imagePreviews, selectedFiles, genHeld, created, revoked>>

\* The own request of the follow-up prompt settles.  The follow-up prompt is
\* given no onQueryGenerated and no onSolveResponse: the generated SQL goes
\* to the prompt's own generatedQuery cell, which nothing displays.
followUp_ownReturns(outcome, result) ==
  /\ followCall # Null
  /\ result \in (IF followCall.mode = "solve" THEN SolveResponses ELSE GenResponses)
  /\ lastOp' = Op("followOwnDone", outcome)
  /\ UNCHANGED <<orchVars, erVars, promptVars, asyncVars, now, issued>>
  /\ RenderLayout
  /\ \E ok \in {/\ outcome = "ok" /\ result.success
                 /\ IF followCall.mode = "solve" THEN result.hasResponse
                    ELSE result.sql # ""} :
     \E cleared \in {ok /\ followCall.live /\ followCall.mode = "solve"} :
       /\ selectedImages' = IF cleared THEN <<>> ELSE selectedImages
       /\ imagePreviews' = IF cleared THEN <<>> ELSE imagePreviews
       /\ selectedFiles' = IF cleared THEN <<>> ELSE selectedFiles
       /\ revoked' = revoked \cup (IF ok /\ followCall.mode = "solve"
                                     THEN Range(followCall.previews) ELSE {})
       /\ IF ok \/ ~followCall.live THEN followError' = followError
          ELSE \E m \in (IF outcome = "throw" THEN ThrownMessages
                          ELSE {OrElse(result.error,
                                       IF followCall.mode = "solve"
                                         THEN "Failed to process images"
                                         ELSE "Failed to generate query")}) :
                 followError' = m
  /\ followCall' = Null
  /\ UNCHANGED <<genHeld, created>>

followUp_returns(outcome, response) ==
  /\ isGenerating
  /\ LogHasRoom
  /\ isGenerating' = FALSE
  /\ IF outcome = "ok" /\ response.success /\ response.sql # ""
       THEN /\ generatedQuery' = response.sql
            /\ hasQuery' = TRUE
            /\ activeTab' = "code"
            /\ AppendMessage(AssistantMessage(
                 <<OrElse(response.explanation, "I've updated the SQL query.")>>))
            /\ PromptAfter(TRUE, FALSE, "")
            /\ lastOp' = Op("followUpDone", "ok")
       ELSE /\ \E m \in (IF outcome = "throw" THEN ThrownMessages
                         ELSE {OrElse(response.error, "Failed to generate query")}) :
                 AppendMessage(AssistantMessage(
                   <<"Sorry, I couldn't process your request: ", m>>))
            /\ lastOp' = Op("followUpDone", "fail")
            /\ UNCHANGED <<hasQuery, generatedQuery, activeTab, promptVars>>
  /\ UNCHANGED <<queryResults, isExecuting, tableTabs, erVars, asyncVars, now, issued>>
  /\ Render

(* ---------------------- uploads (AiPromptInterface) ------------------- *)
\* the inputs of the mounted prompt are disabled while isGenerating || isLoading
\* (the follow-up prompt is given isLoading={isGenerating} of the layout)
PromptBusy ==
  IF hasQuery THEN isGenerating \/ (followCall # Null /\ followCall.live)
  ELSE promptGenerating

\* file.name.endsWith(suffix)
EndsWith(name, suffix) == Len(name) > 0 /\ name[Len(name)] = suffix

\* the filter of handleImageUpload
IsImage(file) == file.type \in {"image/png", "image/jpeg", "image/jpg"}

allowedTypes ==
  {"application/json", "text/plain",
   "application/vnd.openxmlformats-officedocument.spreadsheetml.sheet",
   "text/csv", "application/vnd.ms-excel"}

\* the filter of handleFileUpload
isValidType(file) ==
  \/ file.type \in allowedTypes
  \/ \E suffix \in {".sql", ".json", ".xlsx", ".csv"} : EndsWith(file.name, suffix)

\* (variant: a batch is taken when some file of it is valid)
BatchAccepted_someValid(validFiles, files) == Len(validFiles) > 0 \/ Len(files) = 0

\* the batch is taken unless validFiles.length !== files.length
BatchAccepted(validFiles, files) == Len(validFiles) = Len(files)

\* setError on the mounted prompt
SetError(msg) ==
  IF hasQuery THEN followError' = msg /\ UNCHANGED promptVars
  ELSE promptError' = msg /\ UNCHANGED <<promptGenerating, followError>>

\* the object URLs URL.createObjectURL returns for n files, never one it
\* returned before
NewUrls(n) == [i \in 1..n |-> Cardinality(created) + i]

\* onChange of the hidden image input
handleImageUpload(files) ==
  /\ ~PromptBusy
  /\ \E validFiles \in {SelectSeq(files, IsImage)} :
       IF ~BatchAccepted(validFiles, files)
         THEN /\ SetError("Only PNG and JPEG images are allowed")
              /\ lastOp' = [op |-> "imageUpload", arg |-> "rejected", batch |-> files]
              /\ UNCHANGED <<selectedImages, imagePreviews, created, revoked>>
         ELSE /\ Cardinality(created) + Len(validFiles) <= MaxUrls
              /\ selectedImages' = validFiles
              /\ imagePreviews' = NewUrls(Len(validFiles))
              /\ created' = created \cup Range(NewUrls(Len(validFiles)))
              /\ revoked' = revoked \cup Range(imagePreviews)
              /\ SetError("")
              /\ lastOp' = [op |-> "imageUpload", arg |-> "accepted", batch |-> files]
  /\ UNCHANGED <<orchVars, erVars, asyncVars, callVars, selectedFiles, now, issued>>
  /\ RenderLayout

\* onChange of the hidden document input
handleFileUpload(files) ==
  /\ ~PromptBusy
  /\ \E validFiles \in {SelectSeq(files, isValidType)} :
       IF ~BatchAccepted(validFiles, files)
         THEN /\ SetError("Only .sql, .json, .xlsx, and .csv files are allowed")
              /\ lastOp' = [op |-> "fileUpload", arg |-> "rejected", batch |-> files]
              /\ UNCHANGED selectedFiles
         ELSE /\ selectedFiles' = validFiles
              /\ SetError("")
              /\ lastOp' = [op |-> "fileUpload", arg |-> "accepted", batch |-> files]
  /\ UNCHANGED <<orchVars, erVars, asyncVars, callVars, selectedImages, imagePreviews,
                 created, revoked, now, issued>>
  /\ RenderLayout

\* removeFile(index, type), from the x of a preview or of a document row
\* (index counts from 1 here)
removeFile(index, type) ==
  /\ ~PromptBusy
  /\ IF type = "image"
       THEN /\ index \in 1..Len(selectedImages)
            /\ selectedImages' = RemoveAt(selectedImages, index)
            /\ imagePreviews' = RemoveAt(imagePreviews, index)
            /\ revoked' = revoked \cup {imagePreviews[index]}
            /\ UNCHANGED selectedFiles
       ELSE /\ index \in 1..Len(selectedFiles)
            /\ selectedFiles' = RemoveAt(selectedFiles, index)
            /\ UNCHANGED <<selectedImages, imagePreviews, revoked>>
  /\ lastOp' = Op("removeFile", type)
  /\ UNCHANGED <<orchVars, erVars, promptVars, asyncVars, callVars, followError,
                 created, now, issued>>
  /\ RenderLayout

(* ----------------------------- execution ------------------------------ *)
\* (variant: executeQuery is called without awaiting clearConversation)
RunStarted_noAwait(sql) == [sql |-> sql, clear |-> "pending", exec |-> "pending"]

\* handleDirectExecution up to its first await: clearConversation has been
\* called and the handler waits for it; executeQuery is not called yet
RunStarted(sql) == [sql |-> sql, clear |-> "pending", exec |-> "unsent"]

handleDirectExecution_start(sql) ==
  /\ \E r \in RunIds :
       /\ ~Running(r)
       /\ \A q \in RunIds : q < r => Running(q)
       /\ runs' = [runs EXCEPT ![r] = RunStarted(sql)]
  /\ isExecuting' = TRUE
  /\ UNCHANGED <<hasQuery, generatedQuery, queryResults, messages, activeTab,
                 isGenerating, tableTabs, erVars, promptVars, genCall,
                 clearInFlight, now, issued>>

\* SqlCodeEditor: the Execute button, disabled on blank text and while executing
executeButton ==
  /\ hasQuery /\ activeTab = "code"
  /\ generatedQuery # "" /\ Trim(generatedQuery) # "" /\ ~isExecuting
  /\ handleDirectExecution_start(generatedQuery)
  /\ lastOp' = Op("executeStart", "button")
  /\ Render

\* SqlCodeEditor.handleKeyDown: Ctrl+Enter calls onExecute()
executeCtrlEnter ==
  /\ hasQuery /\ activeTab = "code"
  /\ handleDirectExecution_start(generatedQuery)
  /\ lastOp' = Op("executeStart", "ctrlEnter")
  /\ Render

\* the errorResult built in the catch block
ErrorResult(msg) ==
  [success |-> FALSE, error_message |-> msg, columns |-> <<>>, row_count |-> 0,
   table_results |-> <<>>]

QueryFailedMessage(msg) == AssistantMessage(<<"Query failed: ", msg>>)

\* (variant: every failed result is logged, with or without a message)
LogsFailure_anyFailure(result) == ~result.success

\* the condition under which the try block logs a failed result
LogsFailure(result) == ~result.success /\ result.error_message # ""

\* catch (error) { ... } finally { setIsExecuting(false) }
handleDirectExecution_catch(r, msg) ==
  /\ LogHasRoom
  /\ queryResults' = ErrorResult(msg)
  /\ activeTab' = "table"
  /\ AppendMessage(QueryFailedMessage(msg))
  /\ isExecuting' = FALSE
  /\ runs' = [runs EXCEPT ![r] = IdleRun]
  /\ UNCHANGED <<hasQuery, generatedQuery, isGenerating, tableTabs, erVars,
                 promptVars, genCall, clearInFlight, now, issued>>

\* await clearConversation(sessionId) settles
handleDirectExecution_clearReturns(r, outcome) ==
  /\ runs[r].clear = "pending"
  /\ IF outcome = "ok"
       THEN /\ runs' = [runs EXCEPT ![r].clear = "ok", ![r].exec = "pending"]
            /\ lastOp' = Op("executeSent", "")
            /\ UNCHANGED <<orchVars, erVars, promptVars, genCall, clearInFlight,
                           now, issued>>
       ELSE /\ \E m \in ThrownMessages : handleDirectExecution_catch(r, m)
            /\ lastOp' = Op("executeDone", "clearThrew")
  /\ Render

\* await executeQuery(...) settles
handleDirectExecution_executeReturns(r, outcome, result) ==
  /\ runs[r].exec = "pending"
  /\ IF outcome = "ok"
       THEN /\ queryResults' = result
            /\ activeTab' = "table"
            /\ IF LogsFailure(result)
                 THEN LogHasRoom /\ AppendMessage(QueryFailedMessage(result.error_message))
                 ELSE UNCHANGED messages
            /\ generatedQuery' = runs[r].sql
            /\ isExecuting' = FALSE
            /\ runs' = [runs EXCEPT ![r] = IdleRun]
            /\ lastOp' = Op("executeDone", "returned")
            /\ UNCHANGED <<hasQuery, isGenerating, tableTabs, erVars, promptVars,
                           genCall, clearInFlight, now, issued>>
       ELSE /\ \E m \in ThrownMessages : handleDirectExecution_catch(r, m)
            /\ lastOp' = Op("executeDone", "executeThrew")
  /\ Render

\* SqlCodeEditor onChange={setGeneratedQuery}
editSql(text) ==
  /\ hasQuery /\ activeTab = "code"
  /\ generatedQuery' = text
  /\ lastOp' = Op("edit", "")
  /\ UNCHANGED <<hasQuery, queryResults, messages, activeTab, isExecuting,
                 isGenerating, tableTabs, erVars, promptVars, asyncVars, now, issued>>
  /\ Render

(* ------------------------- clear conversation ------------------------- *)
handleClearConversation_start ==
  /\ clearInFlight < MaxClearInFlight
  /\ clearInFlight' = clearInFlight + 1
  /\ lastOp' = Op("clearStart", "")
  /\ UNCHANGED <<orchVars, erVars, promptVars, runs, genCall, now, issued>>
  /\ Render

\* (variant: the state is reset whether or not the request succeeded)
handleClearConversation_resetsAlways(outcome) ==
  /\ clearInFlight > 0
  /\ clearInFlight' = clearInFlight - 1
  /\ lastOp' = Op("clearDone", outcome)
  /\ messages' = <<>>
  /\ hasQuery' = FALSE
  /\ generatedQuery' = ""
  /\ queryResults' = Null
  /\ UNCHANGED <<activeTab, isExecuting, isGenerating, tableTabs>>
  /\ UNCHANGED <<erVars, promptVars, runs, genCall, now, issued>>
  /\ Render

\* (variant: a successful clear also drops the pinned tabs)
handleClearConversation_dropsTabs(outcome) ==
  /\ clearInFlight > 0
  /\ clearInFlight' = clearInFlight - 1
  /\ lastOp' = Op("clearDone", outcome)
  /\ IF outcome = "ok"
       THEN /\ messages' = <<>>
            /\ hasQuery' = FALSE
            /\ generatedQuery' = ""
            /\ queryResults' = Null
            /\ tableTabs' = <<>>
            /\ UNCHANGED <<activeTab, isExecuting, isGenerating>>
       ELSE UNCHANGED orchVars
  /\ UNCHANGED <<erVars, promptVars, runs, genCall, now, issued>>
  /\ Render

\* await clearConversation(sessionId) settles; catch logs to the console only
handleClearConversation_returns(outcome) ==
  /\ clearInFlight > 0
  /\ clearInFlight' = clearInFlight - 1
  /\ lastOp' = Op("clearDone", outcome)
  /\ IF outcome = "ok"
       THEN /\ messages' = <<>>
            /\ hasQuery' = FALSE
            /\ generatedQuery' = ""
            /\ queryResults' = Null
            /\ UNCHANGED <<activeTab, isExecuting, isGenerating, tableTabs>>
       ELSE UNCHANGED orchVars
  /\ UNCHANGED <<erVars, promptVars, runs, genCall, now, issued>>
  /\ Render

(* ---------------------------- pinned tabs ----------------------------- *)
\* (variants: the id keeps only the suffix, or only the clock reading)
TabId_randOnly(time, rand) == "table-" \o ToString(rand)
TabId_timeOnly(time, rand) == "table-" \o ToString(time)

\* `table-${Date.now()}-${Math.random().toString(36).substr(2, 9)}`
TabId(time, rand) == "table-" \o ToString(time) \o "-" \o ToString(rand)

\* tableResult.table_name || `Table ${tableTabs.length + 1}`
TabTitle(tableResult, count) ==
  OrElse(tableResult.table_name, "Table " \o ToString(count + 1))

TabIdsOf(tabs) == {tabs[i].id : i \in 1..Len(tabs)}

\* the cards on screen: those of the Results tab or of the active pinned tab
OpenableTables ==
  IF activeTab = "table" THEN DisplayedTables(queryResults)
  ELSE {tableTabs[i].tableResult : i \in {j \in 1..Len(tableTabs) : tableTabs[j].id = activeTab}}

\* prev.filter(tab => tab.id !== tabId)
RECURSIVE WithoutTab(_, _)
WithoutTab(tabs, tabId) ==
  IF tabs = <<>> THEN <<>>
  ELSE IF Head(tabs).id = tabId THEN WithoutTab(Tail(tabs), tabId)
       ELSE <<Head(tabs)>> \o WithoutTab(Tail(tabs), tabId)

\* Date.now() does not run backwards; time is the reading taken by the call
handleOpenTableInNewTab(tableResult, time, rand) ==
  /\ hasQuery
  /\ tableResult \in OpenableTables
  /\ Len(tableTabs) < MaxTabs
  /\ time >= now
  /\ now' = time
  /\ LET tabId == TabId(time, rand)
         newTab == [id |-> tabId,
                    title |-> TabTitle(tableResult, Len(tableTabs)),
                    tableResult |-> tableResult]
     IN /\ tableTabs' = Append(tableTabs, newTab)
        /\ activeTab' = tabId
        /\ issued' = issued \cup {[id |-> tabId, time |-> time, rand |-> rand]}
        /\ lastOp' = Op("openTab", "")
  /\ UNCHANGED <<hasQuery, generatedQuery, queryResults, messages, isExecuting,
                 isGenerating, erVars, promptVars, asyncVars>>
  /\ Render

\* (variants: the active view is never moved, or always moved, by a close)
ActiveAfterClose_keeps(active, tabId) == active
ActiveAfterClose_always(active, tabId) == "table"

\* if (activeTab === tabId) setActiveTab("table")
ActiveAfterClose(active, tabId) == IF active = tabId THEN "table" ELSE active

\* the x on a tab trigger, or the Close Tab button of the active pinned tab
handleCloseTableTab(tabId) ==
  /\ hasQuery
  /\ tabId \in TabIdsOf(tableTabs)
  /\ tableTabs' = WithoutTab(tableTabs, tabId)
  /\ activeTab' = ActiveAfterClose(activeTab, tabId)
  /\ lastOp' = Op("closeTab", IF activeTab = tabId THEN "active" ELSE "other")
  /\ UNCHANGED <<hasQuery, generatedQuery, queryResults, messages, isExecuting,
                 isGenerating, erVars, promptVars, asyncVars, now, issued>>
  /\ Render

\* the triggers the tab strip renders
TabTriggers ==
  {"code", "table"} \cup (IF showErDiagram THEN {"er-diagram"} ELSE {})
    \cup TabIdsOf(tableTabs)

\* <Tabs value={activeTab} onValueChange={setActiveTab}>
selectTab(tab) ==
  /\ hasQuery
  /\ tab \in TabTriggers
  /\ tab # activeTab
  /\ activeTab' = tab
  /\ lastOp' = Op("selectTab", "")
  /\ UNCHANGED <<hasQuery, generatedQuery, queryResults, messages, isExecuting,
                 isGenerating, tableTabs, erVars, promptVars, asyncVars, now, issued>>
  /\ Render

(* ----------------------------- ER diagram ----------------------------- *)
\* MermaidSchemaResponse values the backend may answer with
SchemaWithTables == [has_tables |-> TRUE, mermaid |-> "erDiagram A"]
SchemaEmpty == [has_tables |-> FALSE, mermaid |-> ""]
\* the schema after one more CREATE TABLE
SchemaMoreTables == [has_tables |-> TRUE, mermaid |-> "erDiagram A B"]
SchemaResponses == {SchemaWithTables, SchemaMoreTables, SchemaEmpty}

\* what the fetch ended with: the schema it returned, or that it threw
ErDone(outcome, erData) ==
  IF outcome = "ok" THEN [op |-> "erDone", arg |-> "ok", data |-> erData]
  ELSE Op("erDone", outcome)

\* the Generate ER Diagram button of the Results tab
handleGenerateErDiagram_start ==
  /\ hasQuery /\ activeTab = "table" /\ queryResults # Null
  /\ ~isLoadingErDiagram
  /\ isLoadingErDiagram' = TRUE
  /\ lastOp' = Op("erStart", "")
  /\ UNCHANGED <<orchVars, erDiagramData, showErDiagram, promptVars, asyncVars,
                 now, issued>>
  /\ Render

\* (variant: the view moves to the diagram tab only when tables exist)
handleGenerateErDiagram_returns_tablesOnly(outcome, erData) ==
  /\ isLoadingErDiagram
  /\ isLoadingErDiagram' = FALSE
  /\ lastOp' = ErDone(outcome, erData)
  /\ IF outcome = "ok"
       THEN /\ erDiagramData' = erData
            /\ showErDiagram' = TRUE
            /\ activeTab' = IF erData.has_tables THEN "er-diagram" ELSE activeTab
       ELSE UNCHANGED <<erDiagramData, showErDiagram, activeTab>>
  /\ UNCHANGED <<hasQuery, generatedQuery, queryResults, messages, isExecuting,
                 isGenerating, tableTabs, promptVars, asyncVars, now, issued>>
  /\ Render

\* await getSchemaAsMermaid() settles
handleGenerateErDiagram_returns(outcome, erData) ==
  /\ isLoadingErDiagram
  /\ isLoadingErDiagram' = FALSE
  /\ lastOp' = ErDone(outcome, erData)
  /\ IF outcome = "ok"
       THEN /\ erDiagramData' = erData
            /\ showErDiagram' = TRUE
            /\ activeTab' = "er-diagram"
       ELSE UNCHANGED <<erDiagramData, showErDiagram, activeTab>>
  /\ UNCHANGED <<hasQuery, generatedQuery, queryResults, messages, isExecuting,
                 isGenerating, tableTabs, promptVars, asyncVars, now, issued>>
  /\ Render

\* the Close button of the ER Diagram tab
closeErDiagram ==
  /\ hasQuery /\ showErDiagram /\ activeTab = "er-diagram"
  /\ showErDiagram' = FALSE
  /\ activeTab' = "table"
  /\ lastOp' = Op("erClose", "")
  /\ UNCHANGED <<hasQuery, generatedQuery, queryResults, messages, isExecuting,
                 isGenerating, tableTabs, erDiagramData, isLoadingErDiagram,
                 promptVars, asyncVars, now, issued>>
  /\ Render

(* ------------------------- diagram rendering -------------------------- *)
\* what renderMermaidDiagram leaves in the container
Empty == [kind |-> "empty"]
Svg(src) == [kind |-> "svg", src |-> src]
ErrorBox == [kind |-> "error"]

\* the Visual Diagram / Mermaid Code buttons, rendered when tables exist
setErDiagramView(view) ==
  /\ hasQuery /\ activeTab = "er-diagram" /\ showErDiagram
  /\ erDiagramData # Null /\ erDiagramData.has_tables
  /\ view # erDiagramView
  /\ erDiagramView' = view
  /\ lastOp' = Op("erView", view)
  /\ UNCHANGED <<orchVars, erVars, promptVars, asyncVars, pageVars, now, issued>>
  /\ RenderViews
  /\ RenderDiagram
  /\ RenderPrompt

\* The timer of the effect has fired and import('mermaid') has resolved:
\* the element is looked up and, if it is in the document, cleared before
\* mermaid.render is awaited.
renderMermaidDiagram_start(t) ==
  /\ t \in renders
  /\ t.stage = "timer"
  /\ IF container # Null
       THEN /\ container' = Empty
            /\ renders' = (renders \ {t}) \cup {RenderTask(t.src, "rendering", TRUE)}
       ELSE /\ renders' = renders \ {t}
            /\ UNCHANGED container
  /\ lastOp' = Op("renderStart", "")
  /\ UNCHANGED <<orchVars, erVars, promptVars, asyncVars, viewVars, uploadVars,
                 callVars, pageVars, erDiagramView, now, issued>>

\* mermaid.render settles: the svg goes into the element the call looked up;
\* in the catch block the element is looked up again for the error box
renderMermaidDiagram_returns(t, outcome) ==
  /\ t \in renders
  /\ t.stage = "rendering"
  /\ renders' = renders \ {t}
  /\ container' = IF outcome = "ok"
                    THEN IF t.attached THEN Svg(t.src) ELSE container
                    ELSE IF container # Null THEN ErrorBox ELSE container
  /\ lastOp' = Op("renderDone", outcome)
  /\ UNCHANGED <<orchVars, erVars, promptVars, asyncVars, viewVars, uploadVars,
                 callVars, pageVars, erDiagramView, now, issued>>

\* the Download SVG button is rendered
DownloadShown ==
  /\ hasQuery /\ activeTab = "er-diagram" /\ showErDiagram
  /\ erDiagramData # Null /\ erDiagramData.has_tables /\ erDiagramData.mermaid # ""

\* its onClick: document.querySelector('#mermaid-diagram-container svg')
downloadSvg ==
  /\ DownloadShown
  /\ IF container # Null /\ container.kind = "svg"
       THEN /\ download' = [name |-> "er-diagram.svg", text |-> <<container.src>>]
            /\ lastOp' = Op("downloadSvg", "saved")
       ELSE /\ UNCHANGED download
            /\ lastOp' = Op("downloadSvg", "nothing")
  /\ UNCHANGED <<orchState, views, resultTab, display>>

(* ----------------------- ER diagram page (route) ---------------------- *)
\* what renderMermaidDiagram of the page writes into #mermaid-diagram
CodeBlock(src) == [kind |-> "code", src |-> src]

\* the branch ERDiagramPage returns
PageBranch(isLoading, err, data) ==
  IF isLoading THEN "loading"
  ELSE IF err # "" THEN "error"
  ELSE IF data = Null \/ ~data.has_tables THEN "empty"
  ELSE "main"

\* #mermaid-diagram after the commit: in the document only in the main
\* branch, where a new element starts with the 'Rendering diagram...' child
DiagramAfter(element) ==
  diagram' = IF PageBranch(loading', pageError', schemaData') # "main" THEN Null
             ELSE IF element # Null THEN element
             ELSE Spinner

\* await getSchemaAsMermaid() of fetchSchema settles.  renderMermaidDiagram
\* has no await: it looks the element up in the document as it is when the
\* response arrives, before the finally block sets loading to false.
fetchSchema_returns(outcome, data) ==
  /\ loading
  /\ loading' = FALSE
  /\ IF outcome = "ok"
       THEN /\ schemaData' = data
            /\ UNCHANGED pageError
            /\ DiagramAfter(IF data.has_tables /\ data.mermaid # "" /\ diagram # Null
                               THEN CodeBlock(data.mermaid)
                               ELSE diagram)
            /\ lastOp' = [op |-> "pageFetched", arg |-> "ok", data |-> data]
       ELSE /\ pageError' = "Failed to fetch schema"
            /\ UNCHANGED schemaData
            /\ DiagramAfter(diagram)
            /\ lastOp' = Op("pageFetched", outcome)
  /\ UNCHANGED <<orchVars, erVars, promptVars, asyncVars, viewVars, uploadVars,
                 callVars, diagramVars, now, issued>>

\* the Refresh button, in every branch but the loading one
handleRefresh ==
  /\ ~loading
  /\ loading' = TRUE
  /\ pageError' = ""
  /\ UNCHANGED schemaData
  /\ DiagramAfter(diagram)
  /\ lastOp' = Op("pageRefresh", "")
  /\ UNCHANGED <<orchVars, erVars, promptVars, asyncVars, viewVars, uploadVars,
                 callVars, diagramVars, now, issued>>

(* --------------------------- specification ---------------------------- *)
\* Every event the layout can receive, with every outcome of every request.
Next ==
  \/ \E p \in Prompts \cup {""}, mode \in {"generate", "solve"} :
       handleGenerate_start(p, mode)
  \/ \E o \in ApiOutcomes, res \in GenResponses : handleGenerate_generateReturns(o, res)
  \/ \E o \in ApiOutcomes, res \in SolveResponses : handleGenerate_solveReturns(o, res)
  \/ \E p \in Prompts \cup {""} : followUp_start(p)
  \/ \E o \in ApiOutcomes, res \in GenResponses : followUp_returns(o, res)
  \/ \E o \in ApiOutcomes, res \in GenResponses \cup SolveResponses :
       followUp_ownReturns(o, res)
  \/ \E files \in Batches : handleImageUpload(files)
  \/ \E files \in Batches : handleFileUpload(files)
  \/ \E i \in 1..MaxBatch, type \in {"image", "file"} : removeFile(i, type)
  \/ executeButton
  \/ executeCtrlEnter
  \/ \E r \in RunIds, o \in ApiOutcomes : handleDirectExecution_clearReturns(r, o)
  \/ \E r \in RunIds, o \in ApiOutcomes, res \in ExecResponses :
       handleDirectExecution_executeReturns(r, o, res)
  \/ \E text \in SqlTexts : editSql(text)
  \/ handleClearConversation_start
  \/ \E o \in ApiOutcomes : handleClearConversation_returns(o)
  \/ \E tr \in OpenableTables, t \in 0..MaxClock, k \in 1..MaxRand :
       handleOpenTableInNewTab(tr, t, k)
  \/ \E id \in TabIdsOf(tableTabs) : handleCloseTableTab(id)
  \/ \E tab \in TabTriggers : selectTab(tab)
  \/ handleGenerateErDiagram_start
  \/ \E o \in ApiOutcomes, d \in SchemaResponses : handleGenerateErDiagram_returns(o, d)
  \/ closeErDiagram
  \/ \E view \in {"diagram", "code"} : setErDiagramView(view)
  \/ \E t \in renders : renderMermaidDiagram_start(t)
  \/ \E t \in renders, o \in ApiOutcomes : renderMermaidDiagram_returns(t, o)
  \/ downloadSvg
  \/ \E o \in ApiOutcomes, d \in SchemaResponses : fetchSchema_returns(o, d)
  \/ handleRefresh

Spec == Init /\ [][Next]_vars

\* The specifications below are Next with the environment narrowed: the same
\* handlers, fewer of the user's gestures and of the backend's answers.

\* Execution: one generation, then editing and executing with both triggers,
\* overlapping runs, and every outcome of both requests of a run.
NextExec ==
  \/ \E p \in Prompts : handleGenerate_start(p, "generate")
  \/ \E o \in ApiOutcomes, res \in GenResponses : handleGenerate_generateReturns(o, res)
  \/ \E text \in SqlTexts : editSql(text)
  \/ executeButton
  \/ executeCtrlEnter
  \/ \E r \in RunIds, o \in ApiOutcomes : handleDirectExecution_clearReturns(r, o)
  \/ \E r \in RunIds, o \in ApiOutcomes, res \in ExecResponses :
       handleDirectExecution_executeReturns(r, o, res)
  \/ selectTab("code")

SpecExec == Init /\ [][NextExec]_vars

\* Views: pinned tabs (two tabs opened at the same clock reading share
\* their id), the ER diagram, follow-up generation, and executions started
\* from the button whose requests succeed.
NextTabs ==
  \/ \E p \in Prompts : handleGenerate_start(p, "generate")
  \/ handleGenerate_generateReturns("ok", GenOk)
  \/ \E p \in Prompts : followUp_start(p)
  \/ followUp_returns("ok", GenOk)
  \/ followUp_ownReturns("ok", GenOk)
  \/ executeButton
  \/ \E r \in RunIds : handleDirectExecution_clearReturns(r, "ok")
  \/ \E r \in RunIds : handleDirectExecution_executeReturns(r, "ok", RespTwoTables)
  \/ \E tr \in OpenableTables, t \in 0..MaxClock : handleOpenTableInNewTab(tr, t, 1)
  \/ \E id \in TabIdsOf(tableTabs) : handleCloseTableTab(id)
  \/ \E tab \in TabTriggers : selectTab(tab)
  \/ handleGenerateErDiagram_start
  \/ \E o \in ApiOutcomes : handleGenerateErDiagram_returns(o, SchemaWithTables)
  \/ closeErDiagram

SpecTabs == Init /\ [][NextTabs]_vars

\* Tab ids: every clock reading and every random suffix, for the tables of
\* both result shapes.
NextIds ==
  \/ \E p \in Prompts : handleGenerate_start(p, "generate")
  \/ handleGenerate_generateReturns("ok", GenOk)
  \/ executeButton
  \/ \E r \in RunIds : handleDirectExecution_clearReturns(r, "ok")
  \/ \E r \in RunIds, res \in {RespTwoTables, RespFlat} :
       handleDirectExecution_executeReturns(r, "ok", res)
  \/ \E tr \in OpenableTables, t \in 0..MaxClock, k \in 1..MaxRand :
       handleOpenTableInNewTab(tr, t, k)
  \/ \E id \in TabIdsOf(tableTabs) : handleCloseTableTab(id)
  \/ \E tab \in TabTriggers : selectTab(tab)

SpecIds == Init /\ [][NextIds]_vars

\* Conversation: every handler of the layout; generation and follow-up
\* succeed or are refused by the backend, clearing succeeds or throws, an
\* execution from the button succeeds, one pinned tab id.
NextConv ==
  \/ \E p \in Prompts : handleGenerate_start(p, "generate")
  \/ \E res \in {GenOk, GenFail} : handleGenerate_generateReturns("ok", res)
  \/ \E p \in Prompts : followUp_start(p)
  \/ \E res \in {GenOk, GenFail} : followUp_returns("ok", res)
  \/ followUp_ownReturns("ok", GenOk)
  \/ executeButton
  \/ \E r \in RunIds : handleDirectExecution_clearReturns(r, "ok")
  \/ \E r \in RunIds : handleDirectExecution_executeReturns(r, "ok", RespFlat)
  \/ handleClearConversation_start
  \/ \E o \in ApiOutcomes : handleClearConversation_returns(o)
  \/ \E tr \in OpenableTables : handleOpenTableInNewTab(tr, now, 1)
  \/ \E id \in TabIdsOf(tableTabs) : handleCloseTableTab(id)
  \/ \E tab \in TabTriggers : selectTab(tab)
  \/ handleGenerateErDiagram_start
  \/ \E o \in ApiOutcomes : handleGenerateErDiagram_returns(o, SchemaWithTables)
  \/ closeErDiagram

SpecConv == Init /\ [][NextConv]_vars

\* Result cards: results of the three table shapes, pinned tabs opened with
\* every random suffix at the current clock reading, the inner tab strip and
\* the Maximize button of every mounted card.
NextCards ==
  \/ \E p \in Prompts : handleGenerate_start(p, "generate")
  \/ handleGenerate_generateReturns("ok", GenOk)
  \/ executeButton
  \/ \E r \in RunIds : handleDirectExecution_clearReturns(r, "ok")
  \/ \E r \in RunIds, res \in {RespTwoTables, RespOneTable, RespFlat} :
       handleDirectExecution_executeReturns(r, "ok", res)
  \/ \E tr \in OpenableTables, k \in 1..MaxRand : handleOpenTableInNewTab(tr, now, k)
  \/ \E id \in TabIdsOf(tableTabs) : handleCloseTableTab(id)
  \/ \E tab \in TabTriggers : selectTab(tab)
  \/ \E v \in 1..Len(views) : handleMaximize(v)
  \/ \E i \in 0..1 : selectResultTab(i)

SpecCards == Init /\ [][NextCards]_vars

\* Table display: results of one card, short and long, replaced by later
\* executions; every header, every page size and both page buttons.
NextTable ==
  \/ \E p \in Prompts : handleGenerate_start(p, "generate")
  \/ handleGenerate_generateReturns("ok", GenOk)
  \/ executeButton
  \/ \E r \in RunIds : handleDirectExecution_clearReturns(r, "ok")
  \/ \E r \in RunIds, res \in {RespOneTable, RespBig, RespFlat} :
       handleDirectExecution_executeReturns(r, "ok", res)
  \/ \E tab \in {"code", "table"} : selectTab(tab)
  \/ \E c \in {"id", "boss", "n"} : handleSort(c)
  \/ \E size \in PageSizes : selectPageSize(size)
  \/ previousPage
  \/ nextPage

SpecTable == Init /\ [][NextTable]_vars

\* Result shapes: every shape of outcome, successful or failed, replaced by
\* later executions while the Results tab is shown or hidden.
NextShapes ==
  \/ \E p \in Prompts : handleGenerate_start(p, "generate")
  \/ handleGenerate_generateReturns("ok", GenOk)
  \/ executeButton
  \/ \E r \in RunIds : handleDirectExecution_clearReturns(r, "ok")
  \/ \E r \in RunIds, res \in TableResponses \cup {RespFailMsg} :
       handleDirectExecution_executeReturns(r, "ok", res)
  \/ \E tab \in {"code", "table"} : selectTab(tab)
  \/ \E i \in 0..1 : selectResultTab(i)

SpecShapes == Init /\ [][NextShapes]_vars

\* Export: results of one card with numbers, texts and nulls, sorted and
\* paged in the Results tab and in a pinned tab, and exported.
NextExport ==
  \/ \E p \in Prompts : handleGenerate_start(p, "generate")
  \/ handleGenerate_generateReturns("ok", GenOk)
  \/ executeButton
  \/ \E r \in RunIds : handleDirectExecution_clearReturns(r, "ok")
  \/ \E r \in RunIds, res \in {RespOneTable, RespFlat, RespNames} :
       handleDirectExecution_executeReturns(r, "ok", res)
  \/ \E tr \in OpenableTables : handleOpenTableInNewTab(tr, now, 1)
  \/ \E tab \in TabTriggers : selectTab(tab)
  \/ \E c \in {"id", "name"} : handleSort(c)
  \/ selectPageSize(10)
  \/ \E v \in 1..Len(views) : handleExport(v)

SpecExport == Init /\ [][NextExport]_vars

\* Uploads: both prompts with every batch of both file dialogs, removals,
\* generation from text and from files, and the clearing that takes the
\* layout back to its initial state; the requests do not throw.
NextUpload ==
  \/ \E p \in Prompts, mode \in {"generate", "solve"} : handleGenerate_start(p, mode)
  \/ handleGenerate_generateReturns("ok", GenOk)
  \/ \E res \in SolveResponses : handleGenerate_solveReturns("ok", res)
  \/ \E files \in Batches : handleImageUpload(files)
  \/ \E files \in Batches : handleFileUpload(files)
  \/ \E i \in 1..MaxBatch, type \in {"image", "file"} : removeFile(i, type)
  \/ handleClearConversation_start
  \/ handleClearConversation_returns("ok")

SpecUpload == Init /\ [][NextUpload]_vars

\* ER diagram: fetches with every answer from the Results tab, the sub-view
\* buttons, the tab strip, and the renders the effect starts with both
\* outcomes of mermaid.render in every order.
NextDiagram ==
  \/ \E p \in Prompts : handleGenerate_start(p, "generate")
  \/ handleGenerate_generateReturns("ok", GenOk)
  \/ executeButton
  \/ \E r \in RunIds : handleDirectExecution_clearReturns(r, "ok")
  \/ \E r \in RunIds : handleDirectExecution_executeReturns(r, "ok", RespFlat)
  \/ \E tab \in TabTriggers : selectTab(tab)
  \/ handleGenerateErDiagram_start
  \/ \E o \in ApiOutcomes, d \in SchemaResponses : handleGenerateErDiagram_returns(o, d)
  \/ closeErDiagram
  \/ \E view \in {"diagram", "code"} : setErDiagramView(view)
  \/ \E t \in renders : renderMermaidDiagram_start(t)
  \/ \E t \in renders, o \in ApiOutcomes : renderMermaidDiagram_returns(t, o)
  \/ downloadSvg

SpecDiagram == Init /\ [][NextDiagram]_vars

\* ER diagram page: the page in one window, the editor that creates the
\* tables in another.  A fetch of the page that is pending gets its answer;
\* the Refresh button is the user's to click or not.
NextPage ==
  \/ \E o \in ApiOutcomes, d \in SchemaResponses : fetchSchema_returns(o, d)
  \/ handleRefresh
  \/ \E p \in Prompts : handleGenerate_start(p, "generate")
  \/ handleGenerate_generateReturns("ok", GenOk)
  \/ executeButton
  \/ \E r \in RunIds : handleDirectExecution_clearReturns(r, "ok")
  \/ \E r \in RunIds : handleDirectExecution_executeReturns(r, "ok", RespFlat)

SpecPage ==
  /\ Init
  /\ [][NextPage]_vars
  /\ WF_vars(\E o \in ApiOutcomes, d \in SchemaResponses : fetchSchema_returns(o, d))

(* ------------------------------ properties ---------------------------- *)
Last(seq) == seq[Len(seq)]
ExecutionCompletes == lastOp'.op = "executeDone"

\* C1: when the clear-conversation request of a run fails, the failure is
\* tolerated and the execute request of that run is issued all the same.
C1_ClearFailureStillExecutes ==
  [][\A r \in RunIds :
       (runs[r].clear = "pending" /\ lastOp' = Op("executeDone", "clearThrew")
          /\ runs'[r] # runs[r])
       => runs'[r].exec = "pending"]_vars

\* C2: a run's execute request is sent only after the clear-conversation
\* request of the same run has completed; it is never sent while that
\* request is pending or unsent.
C2_ExecuteAfterClear ==
  \A r \in RunIds :
    runs[r].exec # "unsent" => runs[r].clear \notin {"unsent", "pending"}

C2_Witness == \E r \in RunIds : runs[r].exec = "pending" /\ runs[r].clear = "ok"

\* the completed execution added one assistant entry holding the message
LoggedFailure ==
  /\ Len(messages') = Len(messages) + 1
  /\ SubSeq(messages', 1, Len(messages)) = messages
  /\ Last(messages').type = "assistant"
  /\ \E i \in DOMAIN Last(messages').content :
       Last(messages').content[i] = queryResults'.error_message

\* C3 as claimed: every completed execution whose outcome has success=false
\* adds exactly one assistant entry containing the error message, and one
\* whose outcome has success=true adds none.
C3_FailedOutcomeLogged ==
  [][ExecutionCompletes =>
       IF ~queryResults'.success THEN LoggedFailure ELSE messages' = messages]_vars

\* C3 as amended: a completed execution adds exactly one assistant entry
\* containing the error message when the backend reports success=false with
\* a non-empty error message or when a request threw; it adds none when the
\* outcome has success=true or reports a failure without an error message.
C3_FailureWithMessageLogged ==
  [][ExecutionCompletes =>
       IF lastOp'.arg # "returned"
            \/ (~queryResults'.success /\ queryResults'.error_message # "")
         THEN LoggedFailure
         ELSE messages' = messages]_vars

C3_Witness ==
  /\ lastOp = Op("executeDone", "returned")
  /\ queryResults = RespFailMsg
  /\ messages # <<>>
  /\ Last(messages) = QueryFailedMessage("syntax error")

\* a handler ended in a failure
FailureStep ==
  \/ lastOp'.op \in {"generateDone", "followUpDone"} /\ lastOp'.arg \in {"fail", "throw"}
  \/ lastOp'.op = "executeDone" /\ ~queryResults'.success
  \/ lastOp'.op \in {"clearDone", "erDone"} /\ lastOp'.arg = "throw"

\* the step put a message before the user: the prompt's alert, a new
\* conversation entry, or the error state of the results view
ShowsMessage ==
  \/ promptError' # ""
  \/ Len(messages') = Len(messages) + 1 /\ Last(messages').type = "assistant"
  \/ queryResults' # Null /\ ~queryResults'.success /\ queryResults' # queryResults

\* C4: every failure in a handler (generate, follow-up, execute, ER diagram
\* fetch, clear conversation) ends in a message the user can see.
C4_EveryFailureVisible == [][FailureStep => ShowsMessage]_vars

\* C5: hasQuery starts false, becomes true only when a generation or a
\* follow-up generation succeeds with a query, and once true stays true
\* under every operation but a successful clear-conversation.
C5_HasQueryLifecycle ==
  /\ hasQuery = FALSE
  /\ [][/\ (~hasQuery /\ hasQuery') =>
             lastOp' \in {Op("generateDone", "ok"), Op("followUpDone", "ok")}
        /\ (hasQuery /\ ~hasQuery') => lastOp' = Op("clearDone", "ok")]_vars

C5_Witness == hasQuery /\ lastOp = Op("clearDone", "throw")

\* C6: after a successful clear-conversation hasQuery is false,
\* generatedQuery is empty, queryResults is null and the log is empty, and
\* the pinned tabs are what they were before.
C6_ClearResetsAllButTabs ==
  [][lastOp' = Op("clearDone", "ok") =>
       /\ hasQuery' = FALSE
       /\ generatedQuery' = ""
       /\ queryResults' = Null
       /\ messages' = <<>>
       /\ tableTabs' = tableTabs]_vars

C6_Witness ==
  /\ lastOp = Op("clearDone", "ok")
  /\ tableTabs # <<>>
  /\ ~hasQuery /\ generatedQuery = "" /\ queryResults = Null /\ messages = <<>>

C8_CloseTab ==
  [][lastOp'.op = "closeTab" =>
       \E id \in TabIdsOf(tableTabs) :
         /\ tableTabs' = SelectSeq(tableTabs, LAMBDA t : t.id # id)
         /\ lastOp'.arg = (IF activeTab = id THEN "active" ELSE "other")
         /\ activeTab' = (IF activeTab = id THEN "table" ELSE activeTab)]_vars

C8_Witness ==
  /\ lastOp = Op("closeTab", "active")
  /\ activeTab = "table"
  /\ tableTabs # <<>>

\* the step appended one tab that holds a table on screen and made it active
OpensOneTab ==
  /\ Len(tableTabs') = Len(tableTabs) + 1
  /\ SubSeq(tableTabs', 1, Len(tableTabs)) = tableTabs
  /\ Last(tableTabs').tableResult \in OpenableTables
  /\ activeTab' = Last(tableTabs').id

\* C9 as claimed: opening a result in a new tab appends one pinned tab with
\* that result, whose id differs from the id of every tab already present,
\* and makes it the active view.
C9_OpenAddsFreshTab ==
  [][lastOp'.op = "openTab" =>
       /\ OpensOneTab
       /\ Last(tableTabs').id \notin TabIdsOf(tableTabs)]_vars

\* C9 as amended: opening a result in a new tab appends one pinned tab with
\* that result and makes it the active view; its id differs from the id of
\* every tab opened at another clock reading or with another random suffix.
C9_OpenAddsTab ==
  [][lastOp'.op = "openTab" =>
       /\ OpensOneTab
       /\ \E new \in issued' :
            /\ new.id = Last(tableTabs').id
            /\ new.time = now'
            /\ \A old \in issued :
                 old.id = new.id => old.time = new.time /\ old.rand = new.rand]_vars

C9_Witness ==
  /\ lastOp.op = "openTab"
  /\ Len(tableTabs) = 2
  /\ tableTabs[1].id # tableTabs[2].id
  /\ activeTab = tableTabs[2].id

\* C10 as claimed: the ids of the pinned tabs are pairwise distinct, and an
\* id that was assigned is never assigned to a later tab.
C10_IdsNeverRepeat ==
  /\ [](\A i, j \in 1..Len(tableTabs) : tableTabs[i].id = tableTabs[j].id => i = j)
  /\ [][lastOp'.op = "openTab" =>
          Last(tableTabs').id \notin {old.id : old \in issued}]_vars

\* C10 as amended: two tabs of one session have the same id only if they
\* were opened at the same clock reading with the same random suffix, also
\* when the earlier tab has been closed.
C10_IdsRepeatOnlyOnSameStamp ==
  /\ \A a, b \in issued : a.id = b.id => a.time = b.time /\ a.rand = b.rand
  /\ TabIdsOf(tableTabs) \subseteq {a.id : a \in issued}

C10_Witness ==
  \E a, b \in issued :
    /\ a.id # b.id
    /\ a.id \notin TabIdsOf(tableTabs)
    /\ b.id \in TabIdsOf(tableTabs)

\* seq without its i-th element
IsPrefix(s, t) == Len(s) <= Len(t) /\ SubSeq(t, 1, Len(s)) = s

\* C11: a pinned tab keeps its id, title and result data under every
\* operation but the closing of that very tab: a close removes one tab and
\* leaves the others as they were, and every other operation (opening
\* another tab, an execution, a generation, a follow-up) keeps all of them.
C11_PinnedTabFrame ==
  [][IF lastOp'.op = "closeTab"
       THEN \E i \in 1..Len(tableTabs) : tableTabs' = RemoveAt(tableTabs, i)
       ELSE IsPrefix(tableTabs, tableTabs')]_vars

\* C12: the conversation log is append-only between resets: a successful
\* clear-conversation empties it, and every other operation keeps the
\* entries it holds, in their order, adding new ones only at the end.
C12_LogAppendOnly ==
  [][IF lastOp' = Op("clearDone", "ok")
       THEN messages' = <<>>
       ELSE IsPrefix(messages, messages')]_vars

C12_Witness ==
  /\ lastOp = Op("followUpDone", "fail")
  /\ Len(messages) = 4
  /\ messages[1] = UserMessage("show employees")
  /\ Last(messages).type = "assistant"

\* the mounted views whose card is shown maximized
MaximizedViews == {v \in 1..Len(views) : IsMaximized(v)}

\* C13: at most one result card is maximized at any time, over the results
\* tab and all pinned tabs, and a click on the Maximize button of one card
\* leaves no other card maximized.
C13_OneCardMaximized ==
  /\ [](Cardinality(MaximizedViews) <= 1)
  /\ [][lastOp'.op = "maximize" /\ lastOp' # lastOp =>
          \A v \in 1..Len(views) :
            IsMaximized(v)' => ToString(v) = lastOp'.arg]_vars

Unsorted(d) == d.sortColumn = NoSort /\ d.sortDirection = NoSort
SortedBy(d, column, direction) == d.sortColumn = column /\ d.sortDirection = direction

\* C14: clicks on one column header cycle unsorted -> ascending ->
\* descending -> unsorted; after the third click sortColumn and
\* sortDirection are both cleared and the rows are shown in their original
\* order.
C14_TriStateSort ==
  [][lastOp'.op = "sort" /\ display.sortColumn \in {NoSort, lastOp'.arg} =>
       LET c == lastOp'.arg
       IN /\ Unsorted(display) => SortedBy(display', c, "asc")
          /\ SortedBy(display, c, "asc") => SortedBy(display', c, "desc")
          /\ SortedBy(display, c, "desc") =>
               /\ Unsorted(display')
               /\ sortedRows(ShownTable, display'.sortColumn, display'.sortDirection)
                    = ShownTable.rows
          /\ Unsorted(display) =>
               Unsorted(sortAfterClick(sortAfterClick(display', c), c))]_vars

C14_Witness ==
  /\ lastOp.op = "sort"
  /\ lastOp.was = <<lastOp.arg, "desc">>
  /\ display # Null /\ Unsorted(display)
  /\ ShownTable = TStaff

\* the rows are in ascending order of the column: no row comes before a row
\* with a smaller value
AscendingBy(rows, column) ==
  \E vals \in {[i \in 1..Len(rows) |-> Get(rows[i], column)]} :
    \A i, j \in 1..Len(vals) : i < j => ~Less(vals[j], vals[i])

\* C15: whatever the sort state on a column A (unsorted, ascending or
\* descending), a click on the header of another column B leaves the table
\* sorted by B ascending, with no sort left on A.
C15_OtherColumnAscending ==
  [][lastOp'.op = "sort" /\ display.sortColumn # lastOp'.arg =>
       /\ SortedBy(display', lastOp'.arg, "asc")
       /\ \E rows \in {sortedRows(ShownTable, display'.sortColumn,
                                  display'.sortDirection)} :
            AscendingBy(SelectSeq(rows, LAMBDA r : ~Nullish(Get(r, lastOp'.arg))),
                        lastOp'.arg)]_vars

C15_Witness ==
  /\ lastOp.op = "sort" /\ lastOp.arg = "boss"
  /\ lastOp.was = <<"id", "desc">>
  /\ SortedBy(display, "boss", "asc")

\* C16: the page size is always one of 10, 25, 50, 100, it is 25 when a
\* table display is mounted, and every change of page size puts the display
\* on page 1.
C16_PageSize ==
  /\ [](display # Null => display.pageSize \in PageSizes)
  /\ [][(display = Null /\ display' # Null) => display'.pageSize = 25]_vars
  /\ [][lastOp'.op = "pageSize" =>
          display'.pageSize # display.pageSize /\ display'.currentPage = 1]_vars

C16_Witness ==
  /\ lastOp.op = "pageSize" /\ lastOp.was > 1
  /\ display.currentPage = 1 /\ display.pageSize = 10

RECURSIVE PagesFrom(_, _, _, _)
\* the rows of the pages p..last, one page after the other
PagesFrom(rows, p, last, pageSize) ==
  IF p > last THEN <<>>
  ELSE slicePage(rows, p, pageSize) \o PagesFrom(rows, p + 1, last, pageSize)

\* C17: for a result with N >= 1 rows and page size P, every page but the
\* last renders P rows, the last renders N - P * (ceil(N / P) - 1), and the
\* pages in order hold each row of the sorted sequence exactly once.
C17_Pagination ==
  (display # Null /\ Len(ShownTable.rows) >= 1) =>
    \E rows \in {sortedRows(ShownTable, display.sortColumn, display.sortDirection)} :
    \E last \in {totalPages(ShownTable, display.pageSize)} :
      /\ \A p \in 1..last :
           Len(slicePage(rows, p, display.pageSize)) =
             IF p < last THEN display.pageSize
             ELSE Len(rows) - display.pageSize * (last - 1)
      /\ PagesFrom(rows, 1, last, display.pageSize) = rows
      /\ display.currentPage \in 1..last =>
           paginatedRows(ShownTable, display)
             = SubSeq(rows, startRow(display.currentPage, display.pageSize),
                      endRow(ShownTable, display.currentPage, display.pageSize))

C17_Witness ==
  /\ display # Null
  /\ Len(ShownTable.rows) = MaxRows
  /\ display.pageSize = 25
  /\ display.currentPage = totalPages(ShownTable, 25)
  /\ display.sortDirection = "desc"

\* how often a row occurs in a sequence of rows
Occurrences(rows, r) == Cardinality({i \in 1..Len(rows) : rows[i] = r})

\* C18: while a sort is active, in either direction, the rows whose value in
\* the sort column is null or undefined come after all the others, and the
\* others are in natural order (ascending) or in reverse natural order
\* (descending); the sorted rows are the rows of the result.
C18_NullsLast ==
  (display # Null /\ ~Unsorted(display)) =>
    \E rows \in {sortedRows(ShownTable, display.sortColumn, display.sortDirection)} :
    \E vals \in {[i \in 1..Len(rows) |-> Get(rows[i], display.sortColumn)]} :
      /\ \A i, j \in 1..Len(vals) :
           i < j =>
             /\ Nullish(vals[i]) => Nullish(vals[j])
             /\ (~Nullish(vals[i]) /\ ~Nullish(vals[j])) =>
                  IF display.sortDirection = "asc"
                    THEN ~Less(vals[j], vals[i])
                    ELSE ~Less(vals[i], vals[j])
      /\ Len(rows) = Len(ShownTable.rows)
      /\ \A r \in Range(ShownTable.rows) :
           Occurrences(rows, r) = Occurrences(ShownTable.rows, r)

C18_Witness ==
  /\ display # Null
  /\ ShownTable = TStaff
  /\ SortedBy(display, "boss", "desc")
  /\ sortedRows(TStaff, "boss", "desc")
       = <<TStaff.rows[2], TStaff.rows[5], TStaff.rows[1], TStaff.rows[3], TStaff.rows[4]>>

RECURSIVE Split(_, _)
\* text.split(sep): the pieces between the separators
Split(text, sep) ==
  IF \A k \in 1..Len(text) : text[k] # sep THEN <<text>>
  ELSE LET k == CHOOSE k \in 1..Len(text) :
                  text[k] = sep /\ \A m \in 1..(k - 1) : text[m] # sep
       IN <<SubSeq(text, 1, k - 1)>> \o Split(SubSeq(text, k + 1, Len(text)), sep)

\* the exported text split on newline, then on comma
Reparsed(text) ==
  LET lines == Split(text, "\n")
  IN [i \in 1..Len(lines) |-> Split(lines[i], ",")]

\* the header and the rows of a table as lines of fields
LinesOf(tableResult) ==
  <<[j \in 1..Len(tableResult.columns) |-> <<tableResult.columns[j]>>]>>
    \o [i \in 1..Len(tableResult.rows) |->
         [j \in 1..Len(tableResult.columns) |->
            TextOf(Get(tableResult.rows[i], tableResult.columns[j]))]]

ExportSource(v) ==
  IF activeTab = "table"
    THEN [columns |-> queryResults.columns, rows |-> RowsOf(queryResults)]
    ELSE LET shown == SelectSeq(tableTabs, LAMBDA t : t.id = activeTab)
         IN [columns |-> shown[v].tableResult.columns,
             rows |-> shown[v].tableResult.rows]

\* no column name and no value holds a comma or a newline
Plain(tableResult) ==
  \A line \in Range(LinesOf(tableResult)) : \A field \in Range(line) :
    \A k \in 1..Len(field) : field[k] \notin {",", "\n"}

OutcomeShown == activeTab = "table" /\ hasQuery /\ queryResults # Null /\ queryResults.success

\* C20: a successful outcome is rendered in exactly one of four shapes: one
\* inline table for one entry of table_results; a tab strip "Table 1" ..
\* "Table k" with row-count badges for k > 1 entries; one table built from
\* the flattened columns, rows and counters when table_results is empty and
\* columns is not; no table otherwise.
C20_ResultShapes ==
  OutcomeShown =>
    \E tables \in {queryResults.table_results} :
    \E cards \in {Cards(views[1].results)} :
    \E triggers \in {InnerTriggers(views[1].results)} :
      /\ Len(views) = 1
      /\ Len(tables) = 1 => cards = tables /\ triggers = <<>>
      /\ Len(tables) > 1 =>
           /\ cards = tables
           /\ Len(triggers) = Len(tables)
           /\ \A i \in 1..Len(tables) :
                /\ triggers[i].label = "Table " \o ToString(i)
                /\ triggers[i].badge = tables[i].row_count
           /\ display # Null /\ ShownTable = tables[resultTab + 1]
      /\ (Len(tables) = 0 /\ Len(queryResults.columns) > 0) =>
           /\ Len(cards) = 1 /\ triggers = <<>>
           /\ cards[1].columns = queryResults.columns
           /\ cards[1].row_count = queryResults.row_count
           /\ Len(cards[1].rows) = Len(RowsOf(queryResults))
           /\ \A i \in 1..Len(cards[1].rows), c \in Range(queryResults.columns) :
                Get(cards[1].rows[i], c) = Get(RowsOf(queryResults)[i], c)
      /\ (Len(tables) = 0 /\ Len(queryResults.columns) = 0) =>
           cards = <<>> /\ triggers = <<>> /\ display = Null

C20_Witness ==
  /\ OutcomeShown
  /\ queryResults = RespTwoTables
  /\ resultTab = 1
  /\ ShownTable = TAnon
  /\ lastOp.op = "resultTab"

\* the request-tracking state of the layout and of both prompts
RequestsInFlight ==
  <<runs, genCall, clearInFlight, followCall, isGenerating, isExecuting,
    isLoadingErDiagram>>

\* the error cell of the mounted prompt
MountedError == IF hasQuery THEN followError ELSE promptError

\* the file is one the dialog of that upload does not allow
Disallowed(op, file) == IF op = "imageUpload" THEN ~IsImage(file) ELSE ~isValidType(file)

\* C21: a batch of images, or of documents, that holds at least one file of
\* a disallowed type is rejected whole: the selected files and the previews
\* stay what they were, an error message is set, no file of the batch is
\* added, no object URL is created and no request is sent.
C21_BatchAllOrNothing ==
  [][(/\ lastOp'.op \in {"imageUpload", "fileUpload"}
      /\ \E i \in 1..Len(lastOp'.batch) : Disallowed(lastOp'.op, lastOp'.batch[i]))
       => /\ selectedImages' = selectedImages
          /\ imagePreviews' = imagePreviews
          /\ selectedFiles' = selectedFiles
          /\ MountedError' # ""
          /\ created' = created /\ revoked' = revoked
          /\ RequestsInFlight' = RequestsInFlight]_vars

\* a batch of one allowed and one disallowed image was rejected while two
\* images were selected
C21_Witness ==
  /\ lastOp.op = "imageUpload"
  /\ lastOp.batch = <<Png, Gif>>
  /\ Len(selectedImages) = 2 /\ Len(imagePreviews) = 2
  /\ MountedError # ""

\* C22: an object URL created for a preview is revoked when the preview is
\* removed, replaced or cleared and when the prompt that holds it is
\* unmounted: every created URL that has not been revoked is a preview of
\* the mounted prompt.
C22_PreviewsReleased == (created \ revoked) \subseteq Range(imagePreviews)

\* C23: when the schema fetch of handleGenerateErDiagram succeeds, the
\* stored diagram becomes the fetched one, the ER Diagram tab is shown and
\* selected, with tables and without, and queryResults, generatedQuery, the
\* log and the pinned tabs are what they were.
C23_ErDiagramFetched ==
  [][(lastOp'.op = "erDone" /\ lastOp'.arg = "ok")
       => /\ erDiagramData' = lastOp'.data
          /\ showErDiagram'
          /\ activeTab' = "er-diagram"
          /\ queryResults' = queryResults
          /\ generatedQuery' = generatedQuery
          /\ messages' = messages
          /\ tableTabs' = tableTabs]_vars

\* a fetch that found no tables replaced a diagram and selected the tab
C23_Witness ==
  /\ lastOp.op = "erDone" /\ lastOp.arg = "ok"
  /\ lastOp.data = SchemaEmpty
  /\ erDiagramData = SchemaEmpty
  /\ activeTab = "er-diagram"
  /\ renders # {}
  /\ queryResults # Null /\ messages # <<>>

\* C24: whenever the diagram container holds no rendered SVG (render pending
\* or failed, code sub-view, schema without tables), the Download SVG button
\* is not offered.
C24_DownloadNeedsSvg ==
  DownloadShown => container # Null /\ container.kind = "svg"

\* C28: once every render the effect started has finished, an SVG in the
\* diagram container is the rendering of the stored (most recently fetched)
\* Mermaid source.
C28_LatestSourceShown ==
  (renders = {} /\ container # Null /\ container.kind = "svg")
    => container.src = erDiagramData.mermaid

\* the answer the page's last fetch got
PageFetched(data) ==
  lastOp.op = "pageFetched" /\ lastOp.arg = "ok" /\ lastOp.data = data

\* C25: on the ER diagram page, a fetch that returns tables with Mermaid text
\* leads to the page showing that text in the code block of the diagram area;
\* a fetch that returns no tables leads to 'No Database Schema Found'.
C25_PageShowsSchema ==
  \A data \in SchemaResponses :
    PageFetched(data) ~>
      IF data.has_tables /\ data.mermaid # ""
        THEN diagram = CodeBlock(data.mermaid)
        ELSE PageBranch(loading, pageError, schemaData) = "empty"

\* the generation and solve requests a step sends for the follow-up prompt:
\* the layout's contextual generateQuery and the prompt's own request
RequestsOfStep ==
  (IF isGenerating' /\ ~isGenerating THEN 1 ELSE 0)
    + (IF followCall' # Null /\ followCall = Null THEN 1 ELSE 0)

\* C26: a follow-up submission sends exactly one generation request, the one
\* with the current SQL as context; no second generation or solve request.
C26_OneRequestPerFollowUp ==
  [][lastOp'.op = "followUpStart" => RequestsOfStep = 1]_vars

\* C27: isExecuting is true exactly while an execution started by
\* handleDirectExecution has its clear or its execute request in flight,
\* a second execution started by Ctrl+Enter included.
C27_ExecutingWhileInFlight ==
  isExecuting <=> \E r \in RunIds : Running(r)

\* C30: an execution is dispatched only for SQL that is non-empty after
\* trimming, from the Execute button and from Ctrl+Enter alike.
C30_NoBlankExecution ==
  \A r \in RunIds : Running(r) => Trim(runs[r].sql) # ""

\* C29: the current page of the table display lies in 1..max(1, totalPages)
\* after page clicks, page-size changes, sort clicks and the replacement of
\* the displayed result by one with another number of rows.
C29_PageInRange ==
  display # Null =>
    display.currentPage \in 1..Max(1, totalPages(ShownTable, display.pageSize))

====
